---- MODULE Spec2Model ----
(***************************************************************************)
(* Model of the drill-mining worker of blunderfixer-api (app/worker.py)    *)
(* and of the pure helpers it calls.                                       *)
(*                                                                         *)
(* Three specifications share the variables of this module:                *)
(*   SpecWin  - unified_winning_logic applied to every bounded evaluator   *)
(*              response;                                                  *)
(*   SpecMine - one scan of shallow_drills_for_hero over a bounded game,   *)
(*              one loop iteration per step;                               *)
(*   Spec     - the queue runner: workers running fetch_next_batch and     *)
(*              process_queue_entry against the shared database.           *)
(***************************************************************************)
EXTENDS Integers, Sequences, FiniteSets, Bags, TLC

\* ------------------------------------------------------------------------
\* Program constants (app/worker.py, "Config")
\* ------------------------------------------------------------------------
SWING_THRESHOLD == 100
WINNING_MOVE_TOLERANCE == 50
MULTIPV == 3
MATE_BASE == 10000
\* batch size of the worker loop (COUNT)
COUNT == 1

\* ------------------------------------------------------------------------
\* Bounds of the model
\* ------------------------------------------------------------------------
\* longest principal variation an evaluator line carries
MaxPvLen == 2
\* longest mainline (in half-moves) of a game
MaxPly == 3
\* how many times worker processes are killed or die, over all workers
MaxCrashes == 1

\* Optional values: None is the empty tuple, Some(v) the one-element tuple
None == <<>>
Some(v) == <<v>>

VARIABLES
    call,   \* one call of a pure helper: its inputs, position and result
    wl,     \* one call of unified_winning_logic: its inputs, position and result
    scan,   \* one scan of shallow_drills_for_hero: its inputs and loop state
    games,  \* the ids of the Game rows present in the database
    dq,     \* DrillQueue rows: id -> [drills_processed, drilled_at]
    store,  \* committed DrillPosition rows (a bag: the table without its key)
    wk,     \* worker processes: id -> [pc, once, qid, rows, pending, err,
            \*   restarts, retry]
    hist    \* history: what the runs on each queue entry did

vars == <<call, wl, scan, games, dq, store, wk, hist>>

sysvars == <<games, dq, store, wk, hist>>

\* ------------------------------------------------------------------------
\* Evaluator responses.  An info carries the two readings get_cp takes from
\* info["score"].pov(WHITE): mate() and score(), either of which may be None,
\* and the principal variation (absent = empty).
\* ------------------------------------------------------------------------
CpScore(c) == [mate |-> None, cp |-> Some(c)]
MateScore(m) == [mate |-> Some(m), cp |-> None]
NoScore == [mate |-> None, cp |-> None]

\* what one sf.analyse call answers: an info (ok), or Fail when it raises
Answer(s) == [ok |-> TRUE, mate |-> s.mate, cp |-> s.cp]
Fail == [ok |-> FALSE, mate |-> None, cp |-> None]

\* SAN of the j-th move of the line ranked i
PvSan == << <<"Nf3", "Nc6", "Bb5", "a6">>,
            <<"e4", "e5", "Qh5", "g6">>,
            <<"d4", "d5", "c4", "e6">> >>

PvOf(i, len) == [j \in 1..len |-> PvSan[i][j]]

Abs(x) == IF x < 0 THEN -x ELSE x

\* get_cp: the centipawn value of an info, in White's point of view
get_cp(info) ==
    IF info.mate # None
    THEN LET mate_score == info.mate[1]
             raw == MATE_BASE - Abs(mate_score)
         IN  IF mate_score > 0 THEN raw ELSE -raw
    ELSE IF info.cp # None THEN info.cp[1]
    ELSE 0

\* hero-signed centipawns of get_cp's result
SignedCp(raw_cp, hero_side) == IF hero_side = "w" THEN raw_cp ELSE -raw_cp

\* the tolerance test of one line against the best hero-signed score
WithinTolerance(best_hero_cp, line_cp) ==
    best_hero_cp - line_cp <= WINNING_MOVE_TOLERANCE

\* the walk without its break: every within-tolerance line is counted, so
\* the result is no longer a prefix (used as a mutant of WalkWithin)
RECURSIVE WalkNoBreak(_, _, _)
WalkNoBreak(hero_cp_list, best_hero_cp, idx) ==
    IF idx > Len(hero_cp_list) THEN <<>>
    ELSE IF WithinTolerance(best_hero_cp, hero_cp_list[idx])
         THEN <<idx>> \o WalkNoBreak(hero_cp_list, best_hero_cp, idx + 1)
         ELSE WalkNoBreak(hero_cp_list, best_hero_cp, idx + 1)

\* the walk over the lines in rank order: the indexes of the lines it
\* appends; it stops at the first line that fails the tolerance test
RECURSIVE WalkWithin(_, _, _)
WalkWithin(hero_cp_list, best_hero_cp, idx) ==
    IF idx > Len(hero_cp_list) THEN <<>>
    ELSE IF WithinTolerance(best_hero_cp, hero_cp_list[idx])
         THEN <<idx>> \o WalkWithin(hero_cp_list, best_hero_cp, idx + 1)
         ELSE <<>>

\* best_hero_cp with the hero's sign forgotten (used as a mutant)
BestHeroCpUnsigned(hero_cp_list, hero_side) ==
    SignedCp(hero_cp_list[1], hero_side)

\* best_hero_cp read from the line ranked last (used as a mutant)
BestHeroCpLast(hero_cp_list, hero_side) == hero_cp_list[Len(hero_cp_list)]

\* best_hero_cp: the hero-signed score of the line ranked first
BestHeroCp(hero_cp_list, hero_side) == hero_cp_list[1]

\* moves_within entry of a line: its first move, "" when the line has none
FirstMoveOf(pv_line) == IF pv_line # <<>> THEN pv_line[1] ELSE ""

\* has_one_winning_move taken from the number of lines returned instead of
\* the number within tolerance (used as a mutant)
OnlyMoveOfAll(moves_within, analysis) == Len(analysis) = 1

\* has_one_winning_move
OnlyMove(moves_within, analysis) == Len(moves_within) = 1

\* what unified_winning_logic returns for an empty response
NoResult == [only_move |-> FALSE, moves |-> <<>>, lines |-> <<>>, best |-> None]

\* unified_winning_logic on the evaluator's multi-PV response `analysis`
\* (taken after lines 68-69 have made a bare info a one-element list)
unified_winning_logic(analysis, hero_side) ==
    LET hero_cp_list == [i \in 1..Len(analysis) |->
                            SignedCp(get_cp(analysis[i]), hero_side)]
        all_lines == [i \in 1..Len(analysis) |-> analysis[i].pv]
    IN  IF hero_cp_list = <<>>
        THEN NoResult
        ELSE LET best_hero_cp == BestHeroCp(hero_cp_list, hero_side)
                 within == WalkWithin(hero_cp_list, best_hero_cp, 1)
                 moves_within == [i \in 1..Len(within) |->
                                     FirstMoveOf(all_lines[within[i]])]
                 lines_within == [i \in 1..Len(within) |-> all_lines[within[i]]]
             IN  [only_move |-> OnlyMove(moves_within, analysis),
                  moves |-> moves_within, lines |-> lines_within,
                  best |-> Some(best_hero_cp)]

\* ------------------------------------------------------------------------
\* Games.  A parsed PGN is its mainline: `len` half-moves, the side to move
\* at the root, and the [%clk] reading of each move's comment (None when the
\* comment has none).  Positions are named by the number of half-moves
\* played; parsed = FALSE is a PGN text chess.pgn.read_game returns None for.
\* ------------------------------------------------------------------------
Other(side) == IF side = "w" THEN "b" ELSE "w"

\* node.board().turn of the node reached after `node` half-moves
TurnAt(game, node) == IF node % 2 = 0 THEN game.first ELSE Other(game.first)

\* SAN of the k-th mainline move
MainlineSan == <<"e4", "e5", "Qh5", "Nc6", "Bc4", "Nf6", "Qxf7#">>

Max(a, b) == IF a >= b THEN a ELSE b

\* ------------------------------------------------------------------------
\* app/utils/time_parser.py.  A time-control text is the list of its
\* "+"-separated parts, each the integer it reads as or None when int()
\* rejects it; the empty list is the absent or empty text.  Clock readings
\* are whole seconds, on which round(., 1) is the identity.
\* ------------------------------------------------------------------------
\* clock comments: none at all, or a reading on every move
NoClocks(len) == [k \in 1..len |-> None]
Ticking(len) == [k \in 1..len |-> Some(600 - 7 * k)]

\* time controls: absent, "600+5", and the daily form "1/86400", whose
\* only part int() rejects
\* readings that fall unevenly, the second move's comment without one
Uneven(len) ==
    [k \in 1..len |-> IF k = 2 THEN None ELSE Some(600 - 3 * k * k)]

TcAbsent == <<>>
TcBlitz == <<Some(600), Some(5)>>
TcDaily == <<None>>

TcRaised == [raised |-> TRUE, base |-> None, inc |-> 0]

\* _parse_time_control
parse_time_control(tc) ==
    IF tc = <<>> THEN [raised |-> FALSE, base |-> None, inc |-> 0]
    ELSE IF tc[1] = None THEN TcRaised
    ELSE IF Len(tc) = 2
         THEN IF tc[2] = None THEN TcRaised
              ELSE [raised |-> FALSE, base |-> tc[1], inc |-> tc[2][1]]
         ELSE [raised |-> FALSE, base |-> tc[1], inc |-> 0]

\* the replay loop of extract_time_used from iteration i at `node`
RECURSIVE TimeLoop(_, _, _, _, _, _)
TimeLoop(game, inc, last, node, i, ply) ==
    IF i > ply THEN None
    ELSE IF node = game.len THEN None
    ELSE LET mover == TurnAt(game, node)
             rem == game.clk[node + 1]
             spent == IF rem # None /\ last[mover] # None
                      THEN Some(Max(0, last[mover][1] + inc - rem[1]))
                      ELSE None
             last2 == IF rem # None THEN [last EXCEPT ![mover] = rem] ELSE last
         IN  IF i = ply THEN spent
             ELSE TimeLoop(game, inc, last2, node + 1, i + 1, ply)

\* extract_time_used: [raised, val], val the seconds spent or None
extract_time_used(game, time_control, ply) ==
    IF ~game.parsed THEN [raised |-> FALSE, val |-> None]
    ELSE LET p == parse_time_control(time_control)
         IN  IF p.raised THEN [raised |-> TRUE, val |-> None]
             ELSE [raised |-> FALSE,
                   val |-> TimeLoop(game, p.inc,
                                    [side \in {"w", "b"} |-> p.base], 0, 0, ply)]

\* ------------------------------------------------------------------------
\* shallow_drills_for_hero.  The evaluator is what sf.analyse answers for
\* each position of the mainline: an info, or Fail when the call raises.
\* ------------------------------------------------------------------------
HeroSign(hero_side) == IF hero_side = "w" THEN 1 ELSE -1

\* delta of line 135
Swing(cp_before, cp_after, hero_side) ==
    (cp_before - cp_after) * HeroSign(hero_side)

\* the threshold test of line 137
IsDrill(delta) == delta >= SWING_THRESHOLD

\* the state of a scan before its first loop iteration (lines 114-120)
ScanStart(game, hero_side, time_control, e) ==
    [pc |-> IF game.parsed THEN "loop" ELSE "returned",
     game |-> game, hero_side |-> hero_side, time_control |-> time_control,
     e |-> e, node |-> 0, ply_idx |-> 0, drills |-> <<>>, calls |-> <<>>,
     err |-> ""]

\* the opponent's move followed without counting the half-move (used as a
\* mutant)
AfterOpponentMoveUncounted(st) == [st EXCEPT !.node = st.node + 1]

\* lines 150-153: the opponent's move is followed and the half-move counted
AfterOpponentMove(st) ==
    [st EXCEPT !.node = st.node + 1, !.ply_idx = st.ply_idx + 1]

\* one iteration of the while loop (lines 123-153); nothing catches what
\* sf.analyse or extract_time_used raises, and err names it
ScanStep(st) ==
    IF st.node = st.game.len THEN [st EXCEPT !.pc = "returned"]
    ELSE IF TurnAt(st.game, st.node) # st.hero_side
    THEN AfterOpponentMove(st)
    ELSE IF ~st.e[st.node].ok
    THEN [st EXCEPT !.pc = "raised", !.err = "EngineError",
                    !.calls = Append(st.calls, st.node)]
    ELSE IF ~st.e[st.node + 1].ok
    THEN [st EXCEPT !.pc = "raised", !.err = "EngineError",
                    !.node = st.node + 1,
                    !.calls = st.calls \o <<st.node, st.node + 1>>]
    ELSE
        LET fen_before == st.node
            cp_before == get_cp(st.e[st.node])
            move_san == MainlineSan[st.node + 1]
            cp_after == get_cp(st.e[st.node + 1])
            delta == Swing(cp_before, cp_after, st.hero_side)
            t == extract_time_used(st.game, st.time_control, st.ply_idx)
            after == [st EXCEPT !.node = st.node + 1,
                                !.calls = st.calls \o <<st.node, st.node + 1>>]
        IN  IF ~IsDrill(delta)
            THEN [after EXCEPT !.ply_idx = st.ply_idx + 1]
            ELSE IF t.raised
            THEN [after EXCEPT !.pc = "raised", !.err = "ValueError"]
            ELSE [after EXCEPT
                    !.ply_idx = st.ply_idx + 1,
                    !.drills = Append(st.drills,
                        [fen |-> fen_before, ply |-> st.ply_idx,
                         swing |-> delta, initial_eval |-> cp_before,
                         move_san |-> move_san, time_used |-> t.val])]

\* the loop run to its end
RECURSIVE ScanAll(_)
ScanAll(st) == IF st.pc # "loop" THEN st ELSE ScanAll(ScanStep(st))

\* shallow_drills_for_hero: [raised, err, drills]
shallow_drills_for_hero(game, hero_side, time_control, e) ==
    LET end == ScanAll(ScanStart(game, hero_side, time_control, e))
    IN  [raised |-> end.pc = "raised", err |-> end.err,
         drills |-> end.drills]

\* ------------------------------------------------------------------------
\* The database.  DrillQueue and Game rows are fixed but for the processed
\* flag; a DrillPosition row is the columns app/models.py declares that the
\* worker sets from the scan (material counts depend on fen alone and
\* created_at is the wall clock: both are left out).
\* ------------------------------------------------------------------------
Workers == {"w1", "w2"}
QueueIds == {"q1", "q2"}
GameIds == {"g1", "g2"}

\* str.lower() on the usernames of the model
Lower(name) ==
    CASE name = "Hero" -> "hero"
      [] name = "Villain" -> "villain"
      [] OTHER -> name

\* the DrillQueue row of an id: q1 mines g1 for its white player, q2 mines
\* g2 for its black player
QueueRow(q) ==
    IF q = "q1" THEN [game_id |-> "g1", hero_username |-> "hero"]
    ELSE [game_id |-> "g2", hero_username |-> "Villain"]

\* the Game row of an id: g1 a blitz game of MaxPly half-moves, g2 a daily
\* game of two half-moves
GameRow(g) ==
    IF g = "g1"
    THEN [white_username |-> "Hero", time_control |-> TcBlitz,
          pgn |-> [parsed |-> TRUE, len |-> MaxPly, first |-> "w",
                   clk |-> Ticking(MaxPly)]]
    ELSE [white_username |-> "Hero", time_control |-> TcDaily,
          pgn |-> [parsed |-> TRUE, len |-> 2, first |-> "w",
                   clk |-> Ticking(2)]]

\* the multi-PV response at a position the evaluator scores c for White
LinesFor(c) ==
    << [mate |-> None, cp |-> Some(c), pv |-> PvOf(1, 1)],
       [mate |-> None, cp |-> Some(IF c = 300 THEN c - 20 ELSE c - 70),
        pv |-> PvOf(2, 1)] >>

\* what the evaluator answers for a position during a worker run
SysAnswer(c) ==
    [ok |-> TRUE, mate |-> None, cp |-> Some(c), lines |-> LinesFor(c)]
SysFail == [ok |-> FALSE, mate |-> None, cp |-> None, lines |-> <<>>]

\* The evaluator behaviours a worker run may meet, each the White-side score
\* of every position of the mainline: no swing at all; a swing of 100 on
\* White's first move; a swing of 100 on White's second move; swings of 250
\* and 100 on both; a swing of 100 on Black's first move; and an evaluator
\* that raises on the first call.
CalmCp(p) == 50
EarlySwingCp(p) == IF p = 0 THEN 50 ELSE -50
LateSwingCp(p) == IF p <= 2 THEN 50 ELSE -50
BothSwingCp(p) == IF p = 0 THEN 300 ELSE IF p <= 2 THEN 50 ELSE -50
BlackSwingCp(p) == IF p <= 1 THEN -50 ELSE 50

SysEvaluators(len) ==
    {[p \in 0..len |-> SysAnswer(CalmCp(p))],
     [p \in 0..len |-> SysAnswer(EarlySwingCp(p))],
     [p \in 0..len |-> SysAnswer(LateSwingCp(p))],
     [p \in 0..len |-> SysAnswer(BothSwingCp(p))],
     [p \in 0..len |-> SysAnswer(BlackSwingCp(p))],
     [p \in 0..len |-> SysFail]}

\* hero_side of lines 171-173
HeroSide(hero_username, white_username) ==
    IF Lower(hero_username) = Lower(white_username) THEN "w" ELSE "b"

\* hero_is_white of DrillService (list_drills, recent_drills,
\* mastered_drills and get_drill alike): the stored username compared with
\* white_username as the strings are
hero_is_white(username, white_username) == username = white_username

\* the side whose result, rating and opponent the service reports as the
\* hero's
ServiceHeroSide(username, white_username) ==
    IF hero_is_white(username, white_username) THEN "w" ELSE "b"

\* lines 171-225 of process_queue_entry for the entry q under the evaluator
\* e: the DrillPosition rows prepared, or raised when a call raised
MineRows(q, e) ==
    LET d == QueueRow(q)
        game == GameRow(d.game_id)
        hero_side == HeroSide(d.hero_username, game.white_username)
        m == shallow_drills_for_hero(game.pgn, hero_side, game.time_control, e)
    IN  IF m.raised THEN [raised |-> TRUE, err |-> m.err, rows |-> <<>>]
        ELSE [raised |-> FALSE, err |-> "",
              rows |-> [i \in 1..Len(m.drills) |->
                  LET t == m.drills[i]
                      w == unified_winning_logic(e[t.fen].lines, hero_side)
                  IN  [game_id |-> d.game_id, username |-> d.hero_username,
                       fen |-> t.fen, ply |-> t.ply,
                       initial_eval |-> t.initial_eval, eval_swing |-> t.swing,
                       has_one_winning_move |-> w.only_move,
                       winning_moves |-> w.moves,
                       losing_move |-> t.move_san]]]

\* the columns of uq_drillposition_game_user_ply
Key(row) == <<row.game_id, row.username, row.ply>>

KeysOf(rows) == {Key(rows[i]) : i \in 1..Len(rows)}

StoredRows == BagToSet(store)

StoredKeys == {Key(r) : r \in StoredRows}

\* the same statement on a table without the unique constraint: every row
\* is inserted (used as a mutant)
ExecInsertNoConstraint(rows, present) ==
    [raised |-> FALSE, inserted |-> rows]

\* the same statement without on_conflict_do_nothing: a duplicate key raises
\* IntegrityError and nothing is inserted (used as a mutant)
ExecInsertPlain(rows, present) ==
    IF \E i \in 1..Len(rows) : Key(rows[i]) \in present
    THEN [raised |-> TRUE, inserted |-> <<>>]
    ELSE [raised |-> FALSE, inserted |-> rows]

\* the same statement skipping the whole batch when one of its keys is
\* present (used as a mutant)
ExecInsertAllOrNothing(rows, present) ==
    IF \E i \in 1..Len(rows) : Key(rows[i]) \in present
    THEN [raised |-> FALSE, inserted |-> <<>>]
    ELSE [raised |-> FALSE, inserted |-> rows]

\* INSERT ... ON CONFLICT (game_id, username, ply) DO NOTHING of `rows` into
\* a table that holds the keys `present`: the rows it inserts
ExecInsert(rows, present) ==
    LET Fresh(i) == /\ Key(rows[i]) \notin present
                    /\ \A j \in 1..(i - 1) : Key(rows[j]) # Key(rows[i])
        idx == {i \in 1..Len(rows) : Fresh(i)}
        Keep(r) == \E i \in idx : rows[i] = r
    IN  [raised |-> FALSE, inserted |-> SelectSeq(rows, Keep)]

\* the rows of a sequence as a bag
SeqBag(rows) ==
    [r \in {rows[i] : i \in 1..Len(rows)} |->
        Cardinality({i \in 1..Len(rows) : rows[i] = r})]

\* the ids fetch_next_batch may select
Unprocessed == {q \in QueueIds : ~dq[q].drills_processed}

Min(a, b) == IF a <= b THEN a ELSE b

\* fetch_next_batch: the id lists the SELECT may return (it has no ORDER BY)
fetch_next_batch(limit) ==
    {ids \in SUBSET Unprocessed :
        Cardinality(ids) = Min(limit, Cardinality(Unprocessed))}

\* what lines 171-225 may produce for each queue entry, over every answer
\* the evaluator may give for the positions of its game
MineOutcomes ==
    [q \in QueueIds |->
        {MineRows(q, e) :
            e \in SysEvaluators(GameRow(QueueRow(q).game_id).pgn.len)}]

\* the history of a queue entry once a run has mined `rows` for it
NoteMined(h, rows) ==
    IF h.first = None THEN [h EXCEPT !.first = Some(rows)]
    ELSE IF h.first = Some(rows) THEN h
    ELSE [h EXCEPT !.diverged = TRUE]

\* the timestamp of the next flag write: mark commits are totally ordered
RECURSIVE CountMarks(_)
CountMarks(qs) ==
    IF qs = {} THEN 0
    ELSE LET q == CHOOSE x \in qs : TRUE
         IN  Cardinality(hist[q].markers) + CountMarks(qs \ {q})

Now == CountMarks(QueueIds) + 1

RECURSIVE CountRestarts(_)
CountRestarts(ws) ==
    IF ws = {} THEN 0
    ELSE LET w == CHOOSE x \in ws : TRUE
         IN  wk[w].restarts + CountRestarts(ws \ {w})

\* the variables of a specification that does not use them
IdleWl == [pc |-> "idle"]
IdleScan == [pc |-> "idle"]
IdleCall == [pc |-> "idle"]
IdleSys ==
    /\ games = {}
    /\ dq = <<>>
    /\ store = EmptyBag
    /\ wk = <<>>
    /\ hist = <<>>

\* ------------------------------------------------------------------------
\* The worker process (__main__ of app/worker.py), one action per step
\* that another process can observe
\* ------------------------------------------------------------------------
Idle(w) == [wk[w] EXCEPT !.pc = "loop", !.qid = "", !.rows = <<>>,
                         !.pending = <<>>, !.retry = FALSE]

Dead(w, why) == [wk[w] EXCEPT !.pc = "dead", !.err = why, !.pending = <<>>]

\* what an aborted run leaves of the queue rows: process_queue_entry has no
\* handler, the session is rolled back and closed
DqAfterAbort(w) == dq

NoteAbort(w) ==
    [hist EXCEPT ![wk[w].qid].aborts = @ \cup {wk[w].pc}]

\* the failure of popen_uci swallowed, the run going on without an
\* evaluator (used as a mutant)
OnPopenFailureGoOn(w) == [wk[w] EXCEPT !.pc = "loop", !.err = "popen"]

\* line 269 is outside the try of line 272 and nothing catches what
\* popen_uci raises: the process ends
OnPopenFailure(w) == Dead(w, "popen")

\* lines 268-270: the evaluator process is started, or popen_uci raises
Boot(w) ==
    /\ wk[w].pc = "boot"
    /\ \/ wk' = [wk EXCEPT ![w].pc = "loop"]
       \/ wk' = [wk EXCEPT ![w] = OnPopenFailure(w)]
    /\ UNCHANGED <<call, wl, scan, games, dq, store, hist>>

\* lines 275-281: fetch a batch; on an empty one leave (--once) or sleep
Fetch(w) ==
    /\ wk[w].pc = "loop"
    /\ \E ids \in fetch_next_batch(COUNT) :
          IF ids = {}
          THEN wk' = [wk EXCEPT ![w].pc = IF wk[w].once THEN "exited" ELSE "loop"]
          ELSE \E qid \in ids :
                  wk' = [wk EXCEPT ![w].pc = "entry", ![w].qid = qid,
                                   ![w].retry = (hist[qid].aborts # {})]
    /\ UNCHANGED <<call, wl, scan, games, dq, store, hist>>

\* lines 162-225: load the rows, scan the game, prepare the drill rows
Mine(w) ==
    /\ wk[w].pc = "entry"
    /\ LET q == wk[w].qid
           g == QueueRow(q).game_id
       IN  IF g \notin games
           THEN /\ wk' = [wk EXCEPT ![w] = Idle(w)]
                /\ UNCHANGED <<dq, hist>>
           ELSE \E m \in MineOutcomes[q] :
                  IF m.raised
                  THEN /\ wk' = [wk EXCEPT ![w] = Dead(w, m.err)]
                       /\ dq' = DqAfterAbort(w)
                       /\ hist' = NoteAbort(w)
                  ELSE /\ wk' = [wk EXCEPT ![w].pc = "mined",
                                           ![w].rows = m.rows]
                       /\ hist' = [hist EXCEPT ![q] = NoteMined(@, m.rows)]
                       /\ UNCHANGED dq
    /\ UNCHANGED <<call, wl, scan, games, store>>

\* the guard of the flag write moved before the insert (used as a mutant)
MayMarkEarly(w) == wk[w].pc \in {"mined", "written"}

\* the flag is written once the insert, if any, is committed (lines 228-239)
MayMark(w) == wk[w].pc = "written"

\* lines 228-235: the bulk insert, executed in the run's open transaction.
\* It waits while another transaction holds an uncommitted row of one of
\* its keys.
Insert(w) ==
    /\ wk[w].pc = "mined"
    /\ IF wk[w].rows = <<>>
       THEN wk' = [wk EXCEPT ![w].pc = "written"]
       ELSE /\ \A o \in Workers \ {w} :
                  KeysOf(wk[o].pending) \cap KeysOf(wk[w].rows) = {}
            /\ LET x == ExecInsert(wk[w].rows, StoredKeys)
               IN  IF x.raised
                   THEN wk' = [wk EXCEPT ![w] = Dead(w, "IntegrityError")]
                   ELSE wk' = [wk EXCEPT ![w].pc = "inserted",
                                         ![w].pending = x.inserted]
    /\ UNCHANGED <<call, wl, scan, games, dq, store, hist>>

\* the rows committed one at a time (used as a mutant)
CommitRowByRow(w) ==
    /\ wk[w].pc = "inserted"
    /\ IF wk[w].pending = <<>>
       THEN /\ wk' = [wk EXCEPT ![w].pc = "written"]
            /\ UNCHANGED store
       ELSE /\ store' = store (+) SeqBag(<<Head(wk[w].pending)>>)
            /\ wk' = [wk EXCEPT ![w].pending = Tail(@)]
    /\ UNCHANGED <<call, wl, scan, games, dq, hist>>

\* line 236: the commit of the inserted rows
Commit(w) ==
    /\ wk[w].pc = "inserted"
    /\ store' = store (+) SeqBag(wk[w].pending)
    /\ wk' = [wk EXCEPT ![w].pc = "written", ![w].pending = <<>>]
    /\ UNCHANGED <<call, wl, scan, games, dq, hist>>

\* lines 239-244: the flag and drilled_at are written and committed
Mark(w) ==
    /\ MayMark(w)
    /\ dq' = [dq EXCEPT ![wk[w].qid] =
                [drills_processed |-> TRUE, drilled_at |-> Some(Now)]]
    /\ hist' = [hist EXCEPT ![wk[w].qid].markers = @ \cup {w},
                            ![wk[w].qid].marked_keys =
                                @ \cup KeysOf(wk[w].rows)]
    /\ wk' = [wk EXCEPT ![w] = Idle(w)]
    /\ UNCHANGED <<call, wl, scan, games, store>>

\* the process is killed inside process_queue_entry: its open transaction
\* is rolled back
Crash(w) ==
    /\ wk[w].pc \in {"entry", "mined", "inserted", "written"}
    /\ CountRestarts(Workers) < MaxCrashes
    /\ wk' = [wk EXCEPT ![w] = Dead(w, "killed")]
    /\ dq' = DqAfterAbort(w)
    /\ hist' = NoteAbort(w)
    /\ UNCHANGED <<call, wl, scan, games, store>>

\* a dead worker process is started again
Restart(w) ==
    /\ wk[w].pc = "dead"
    /\ CountRestarts(Workers) < MaxCrashes
    /\ wk' = [wk EXCEPT ![w].pc = "boot", ![w].err = "", ![w].qid = "",
                        ![w].rows = <<>>, ![w].restarts = @ + 1,
                        ![w].retry = FALSE]
    /\ UNCHANGED <<call, wl, scan, games, dq, store, hist>>

Init ==
    /\ wl = IdleWl
    /\ scan = IdleScan
    /\ call = IdleCall
    /\ games = GameIds
    /\ dq = [q \in QueueIds |-> [drills_processed |-> FALSE, drilled_at |-> None]]
    /\ store = EmptyBag
    /\ wk = [w \in Workers |->
                [pc |-> "boot", once |-> (w = "w1"), qid |-> "", rows |-> <<>>,
                 pending |-> <<>>, err |-> "", restarts |-> 0,
                 retry |-> FALSE]]
    /\ hist = [q \in QueueIds |->
                  [first |-> None, diverged |-> FALSE, markers |-> {},
                   marked_keys |-> {}, aborts |-> {}]]

Next ==
    \E w \in Workers :
        \/ Boot(w)
        \/ Fetch(w)
        \/ Mine(w)
        \/ Insert(w)
        \/ Commit(w)
        \/ Mark(w)
        \/ Crash(w)
        \/ Restart(w)

Spec == Init /\ [][Next]_vars

\* ------------------------------------------------------------------------
\* SpecOnce: one worker started with --once and never killed, over every
\* set of Game rows that can be loaded.  The loop of lines 274-289 has no
\* wait when --once is given, so each step it can take is taken.
\* ------------------------------------------------------------------------
OnceWorker == "w1"

OnceInit ==
    /\ wl = IdleWl
    /\ scan = IdleScan
    /\ call = IdleCall
    /\ games \in SUBSET GameIds
    /\ dq = [q \in QueueIds |-> [drills_processed |-> FALSE, drilled_at |-> None]]
    /\ store = EmptyBag
    /\ wk = [w \in Workers |->
                [pc |-> "boot", once |-> (w = OnceWorker), qid |-> "",
                 rows |-> <<>>, pending |-> <<>>, err |-> "", restarts |-> 0,
                 retry |-> FALSE]]
    /\ hist = [q \in QueueIds |->
                  [first |-> None, diverged |-> FALSE, markers |-> {},
                   marked_keys |-> {}, aborts |-> {}]]

OnceNext ==
    \/ Boot(OnceWorker)
    \/ Fetch(OnceWorker)
    \/ Mine(OnceWorker)
    \/ Insert(OnceWorker)
    \/ Commit(OnceWorker)
    \/ Mark(OnceWorker)

SpecOnce == OnceInit /\ [][OnceNext]_vars /\ WF_vars(OnceNext)

\* ------------------------------------------------------------------------
\* SpecWin: every bounded evaluator response, one call each
\* ------------------------------------------------------------------------
\* scores the evaluator reports for a line (White's point of view)
WinScores ==
    {CpScore(c) : c \in {-50, 0, 1, 50}}
        \cup {MateScore(m) : m \in {-1, 0, 1}} \cup {NoScore}

InfosAt(i) ==
    {[mate |-> s.mate, cp |-> s.cp, pv |-> PvOf(i, len)] :
        s \in WinScores, len \in 0..MaxPvLen}

\* the responses of n lines, best first as the evaluator ranks them
RECURSIVE AnalysesOfLen(_)
AnalysesOfLen(n) ==
    IF n = 0 THEN {<<>>}
    ELSE {Append(a, x) : a \in AnalysesOfLen(n - 1), x \in InfosAt(n)}

Analyses == UNION {AnalysesOfLen(n) : n \in 0..MULTIPV}

WinInit ==
    /\ \E a \in Analyses, h \in {"w", "b"} :
          wl = [pc |-> "call", analysis |-> a, hero_side |-> h, out |-> NoResult]
    /\ scan = IdleScan
    /\ call = IdleCall
    /\ IdleSys

WinCall ==
    /\ wl.pc = "call"
    /\ wl' = [wl EXCEPT !.pc = "done",
                        !.out = unified_winning_logic(wl.analysis, wl.hero_side)]
    /\ UNCHANGED <<call, scan, sysvars>>

WinNext == WinCall

SpecWin == WinInit /\ [][WinNext]_vars

\* ------------------------------------------------------------------------
\* SpecMine: one scan of every bounded game under every bounded evaluator,
\* one loop iteration per step
\* ------------------------------------------------------------------------
\* what the evaluator answers for a position of the scan
MineAnswers ==
    {Answer(CpScore(c)) : c \in {-300, -50, 50, 300}}
        \cup {Answer(MateScore(1)), Fail}

MineGames ==
    {[parsed |-> TRUE, len |-> n, first |-> f, clk |-> NoClocks(n)] :
        n \in 0..MaxPly, f \in {"w", "b"}}
    \cup {[parsed |-> TRUE, len |-> n, first |-> "w", clk |-> Ticking(n)] :
        n \in 0..MaxPly}
    \cup {[parsed |-> TRUE, len |-> MaxPly, first |-> f, clk |-> Uneven(MaxPly)] :
        f \in {"w", "b"}}
    \cup {[parsed |-> FALSE, len |-> 0, first |-> "w", clk |-> <<>>]}

MineInit ==
    /\ \E game \in MineGames, hero_side \in {"w", "b"},
          tc \in {TcAbsent, TcBlitz, TcDaily} :
          \E e \in [0..game.len -> MineAnswers] :
              scan = ScanStart(game, hero_side, tc, e)
    /\ wl = IdleWl
    /\ call = IdleCall
    /\ IdleSys

\* one loop iteration, or the loop's exit
MineStep ==
    /\ scan.pc = "loop"
    /\ scan' = ScanStep(scan)
    /\ UNCHANGED <<call, wl, sysvars>>

MineNext == MineStep

SpecMine == MineInit /\ [][MineNext]_vars

\* ------------------------------------------------------------------------
\* classify_phase (app/services/drills_service.py; app/routes/drills.py
\* holds the same function)
\* ------------------------------------------------------------------------
\* ceil(ply / 2)
MoveNoFloor(ply) == ply \div 2

MoveNo(ply) == (ply + 1) \div 2

\* int(has_queen) * 2 + rook_count + minor_count of one side
SidePoints(has_queen, rook_count, minor_count) ==
    (IF has_queen THEN 1 ELSE 0) * 2 + rook_count + minor_count

\* material taken as the sum of both sides (used as a mutant)
MaterialSum(white_pts, black_pts) == white_pts + black_pts

\* material = max(white_pts, black_pts)
Material(white_pts, black_pts) == Max(white_pts, black_pts)

\* classify_phase; an unknown input is None, a known one Some(value)
classify_phase(ply, has_white_queen, has_black_queen, white_rook_count, black_rook_count, white_minor_count, black_minor_count, opening_move_threshold) ==
    LET move_no == MoveNo(ply)
    IN  IF None \in {has_white_queen, has_black_queen, white_rook_count,
                     black_rook_count, white_minor_count, black_minor_count}
        THEN IF move_no < opening_move_threshold THEN "opening" ELSE "middle"
        ELSE IF /\ move_no < opening_move_threshold
                /\ (has_white_queen[1] \/ has_black_queen[1])
        THEN "opening"
        ELSE LET white_pts == SidePoints(has_white_queen[1],
                                         white_rook_count[1],
                                         white_minor_count[1])
                 black_pts == SidePoints(has_black_queen[1],
                                         black_rook_count[1],
                                         black_minor_count[1])
                 material == Material(white_pts, black_pts)
             IN  IF material >= 5 THEN "middle"
                 ELSE IF material >= 3 THEN "late"
                 ELSE "endgame"

\* ------------------------------------------------------------------------
\* SpecPhase: classify_phase applied to every bounded input
\* ------------------------------------------------------------------------
\* largest ply, rook count and minor-piece count of an input
MaxPhasePly == 21
MaxRooks == 2
MaxMinors == 2

\* opening_threshold values (the route requires it to be at least 1)
PhaseThresholds == {1, 2, 10}

OptBool == {None, Some(TRUE), Some(FALSE)}
OptCount(max) == {None} \cup {Some(n) : n \in 0..max}

PhaseInit ==
    /\ \E ply \in 0..MaxPhasePly, wq \in OptBool, bq \in OptBool,
          wr \in OptCount(MaxRooks), br \in OptCount(MaxRooks),
          wm \in OptCount(MaxMinors), bm \in OptCount(MaxMinors),
          t \in PhaseThresholds :
          call = [pc |-> "call", f |-> "classify_phase", ply |-> ply,
                  has_white_queen |-> wq, has_black_queen |-> bq,
                  white_rook_count |-> wr, black_rook_count |-> br,
                  white_minor_count |-> wm, black_minor_count |-> bm,
                  opening_move_threshold |-> t, out |-> ""]
    /\ wl = IdleWl
    /\ scan = IdleScan
    /\ IdleSys

PhaseCall ==
    /\ call.pc = "call"
    /\ call.f = "classify_phase"
    /\ call' = [call EXCEPT
                  !.pc = "done",
                  !.out = classify_phase(call.ply, call.has_white_queen,
                              call.has_black_queen, call.white_rook_count,
                              call.black_rook_count, call.white_minor_count,
                              call.black_minor_count,
                              call.opening_move_threshold)]
    /\ UNCHANGED <<wl, scan, sysvars>>

PhaseNext == PhaseCall

SpecPhase == PhaseInit /\ [][PhaseNext]_vars

\* ------------------------------------------------------------------------
\* SpecTime: extract_time_used applied to every bounded game, time control
\* and ply
\* ------------------------------------------------------------------------
\* time controls "600" and "600+x": the second has an increment int() rejects
TcBase == <<Some(600)>>
TcBadInc == <<Some(600), None>>

TimeControls == {TcAbsent, TcBase, TcBlitz, TcDaily, TcBadInc}

\* what a move's comment holds: no [%clk], or a reading in seconds
ClockReadings == {None, Some(580), Some(597), Some(610)}

TimeGames ==
    UNION {{[parsed |-> TRUE, len |-> n, first |-> f, clk |-> c] :
               f \in {"w", "b"}, c \in [1..n -> ClockReadings]} :
           n \in 0..MaxPly}
    \cup {[parsed |-> FALSE, len |-> 0, first |-> "w", clk |-> <<>>]}

TimeInit ==
    /\ \E game \in TimeGames, tc \in TimeControls, ply \in 0..MaxPly :
          call = [pc |-> "call", f |-> "extract_time_used", game |-> game,
                  time_control |-> tc, ply |-> ply,
                  out |-> [raised |-> FALSE, val |-> None]]
    /\ wl = IdleWl
    /\ scan = IdleScan
    /\ IdleSys

TimeCall ==
    /\ call.pc = "call"
    /\ call.f = "extract_time_used"
    /\ call' = [call EXCEPT
                  !.pc = "done",
                  !.out = extract_time_used(call.game, call.time_control,
                                            call.ply)]
    /\ UNCHANGED <<wl, scan, sysvars>>

TimeNext == TimeCall

SpecTime == TimeInit /\ [][TimeNext]_vars

\* ------------------------------------------------------------------------
\* app/utils/drill_themes.py.  Squares are 0..63 as in python-chess (a1 = 0,
\* h1 = 7, a8 = 56); a piece is <<colour, type>> with type one of K Q R B N
\* P, an empty square is <<>>.  A position is [turn, bd, ep]: the side to
\* move, the piece of every square and the en-passant square (None or
\* Some(square)); no side of a position of the model may castle.
\* ------------------------------------------------------------------------
Empty == <<>>

Squares == 0..63

FileOf(sq) == sq % 8
RankOf(sq) == sq \div 8
SquareAt(f, r) == 8 * r + f
OnBoard(f, r) == f \in 0..7 /\ r \in 0..7

HIGH_VALUE == {"Q", "R", "K"}
SLIDERS == {"B", "R", "Q"}
DIRECTIONS == <<8, -8, 1, -1, 9, -9, 7, -7>>

KnightSteps ==
    {<<1, 2>>, <<2, 1>>, <<2, -1>>, <<1, -2>>,
     <<-1, -2>>, <<-2, -1>>, <<-2, 1>>, <<-1, 2>>}
KingSteps ==
    {<<1, 0>>, <<1, 1>>, <<0, 1>>, <<-1, 1>>,
     <<-1, 0>>, <<-1, -1>>, <<0, -1>>, <<1, -1>>}
RookSteps == {<<1, 0>>, <<-1, 0>>, <<0, 1>>, <<0, -1>>}
BishopSteps == {<<1, 1>>, <<-1, 1>>, <<1, -1>>, <<-1, -1>>}

\* the squares one step of `steps` away from sq
StepAttacks(sq, steps) ==
    {SquareAt(FileOf(sq) + d[1], RankOf(sq) + d[2]) :
        d \in {e \in steps : OnBoard(FileOf(sq) + e[1], RankOf(sq) + e[2])}}

\* the squares of a ray from (f, r), up to and including the first occupied
RECURSIVE RayFrom(_, _, _, _, _)
RayFrom(bd, f, r, df, dr) ==
    IF ~OnBoard(f + df, r + dr) THEN {}
    ELSE IF bd[SquareAt(f + df, r + dr)] # Empty
    THEN {SquareAt(f + df, r + dr)}
    ELSE {SquareAt(f + df, r + dr)} \cup RayFrom(bd, f + df, r + dr, df, dr)

SlideAttacks(bd, sq, steps) ==
    UNION {RayFrom(bd, FileOf(sq), RankOf(sq), d[1], d[2]) : d \in steps}

\* board.attacks(sq): the squares the piece on sq attacks
Attacks(bd, sq) ==
    IF bd[sq] = Empty THEN {}
    ELSE CASE bd[sq][2] = "N" -> StepAttacks(sq, KnightSteps)
           [] bd[sq][2] = "K" -> StepAttacks(sq, KingSteps)
           [] bd[sq][2] = "R" -> SlideAttacks(bd, sq, RookSteps)
           [] bd[sq][2] = "B" -> SlideAttacks(bd, sq, BishopSteps)
           [] bd[sq][2] = "Q" -> SlideAttacks(bd, sq, RookSteps \cup BishopSteps)
           [] bd[sq][2] = "P" ->
                StepAttacks(sq, IF bd[sq][1] = "w" THEN {<<1, 1>>, <<-1, 1>>}
                                ELSE {<<1, -1>>, <<-1, -1>>})

\* board.pieces(piece_type, colour)
PiecesOf(bd, type, colour) == {sq \in Squares : bd[sq] = <<colour, type>>}

\* some piece of `colour` attacks sq
AttackedBy(bd, colour, sq) ==
    \E s \in Squares : /\ bd[s] # Empty
                       /\ bd[s][1] = colour
                       /\ sq \in Attacks(bd, s)

\* board.is_check(): the king of the side to move is attacked
IsCheck(pos) ==
    \E k \in PiecesOf(pos.bd, "K", pos.turn) :
        AttackedBy(pos.bd, Other(pos.turn), k)

\* board.push(move), for a move that is neither castling nor en passant
PushMove(pos, move) ==
    [turn |-> Other(pos.turn),
     bd |-> [pos.bd EXCEPT ![move.from] = Empty, ![move.to] = pos.bd[move.from]],
     ep |-> None]

\* the legal moves of the mover's pieces of `type` to the square `to`
LegalMovesTo(pos, type, to) ==
    {[from |-> f, to |-> to] : f \in
        {f \in PiecesOf(pos.bd, type, pos.turn) :
            /\ to \in Attacks(pos.bd, f)
            /\ (pos.bd[to] = Empty \/ pos.bd[to][1] # pos.turn)
            /\ LET after == PushMove(pos, [from |-> f, to |-> to])
               IN  ~\E k \in PiecesOf(after.bd, "K", pos.turn) :
                      AttackedBy(after.bd, Other(pos.turn), k)}}

\* board.parse_san: a SAN text of the model is [piece, to], piece "?" for a
\* text that is no SAN at all; ValueError when no legal move or several
\* match it
parse_san(pos, move_san) ==
    IF move_san.piece = "?" THEN [raised |-> TRUE, move |-> None]
    ELSE LET ms == LegalMovesTo(pos, move_san.piece, move_san.to)
         IN  IF Cardinality(ms) = 1
             THEN [raised |-> FALSE, move |-> Some(CHOOSE m \in ms : TRUE)]
             ELSE [raised |-> TRUE, move |-> None]

InSeq(x, seq) == \E i \in 1..Len(seq) : seq[i] = x

\* board.is_en_passant(move)
IsEnPassant(pos, move) ==
    /\ pos.ep = Some(move.to)
    /\ pos.bd[move.from] # Empty
    /\ pos.bd[move.from][2] = "P"
    /\ Abs(move.to - move.from) \in {7, 9}
    /\ pos.bd[move.to] = Empty

\* board.is_capture(move)
IsCapture(pos, move) ==
    \/ (pos.bd[move.to] # Empty /\ pos.bd[move.to][1] # pos.turn)
    \/ IsEnPassant(pos, move)

\* board.is_castling(move)
IsCastling(pos, move) ==
    /\ pos.bd[move.from] # Empty
    /\ pos.bd[move.from][2] = "K"
    /\ \/ Abs(FileOf(move.from) - FileOf(move.to)) > 1
       \/ pos.bd[move.to] = <<pos.turn, "R">>

\* the (slider, target) pairs of lines 35-41 and 65-71
SliderAttackPairs(bd, mover) ==
    {pair \in Squares \X Squares :
        /\ bd[pair[1]] # Empty
        /\ bd[pair[1]][1] = mover
        /\ bd[pair[1]][2] \in SLIDERS
        /\ pair[2] \in Attacks(bd, pair[1])
        /\ bd[pair[2]] # Empty
        /\ bd[pair[2]][1] # mover}

\* the number of HIGH_VALUE pieces not of colour `opp` that the knight on sq
\* attacks (lines 49-55)
ForkCount(bd, sq, opp) ==
    Cardinality({t \in Attacks(bd, sq) :
                    /\ bd[t] # Empty
                    /\ bd[t][1] # opp
                    /\ bd[t][2] \in HIGH_VALUE})

\* the knights whose attacks lines 48-58 count: those of the side `opp`
ForkKnights(bd, opp) == PiecesOf(bd, "N", opp)

\* the squares strictly between two squares of one line
Between(a, b) ==
    LET df == FileOf(b) - FileOf(a)
        dr == RankOf(b) - RankOf(a)
        n == Max(Abs(df), Abs(dr))
    IN  IF n = 0 \/ ~(df = 0 \/ dr = 0 \/ Abs(df) = Abs(dr)) THEN {}
        ELSE {SquareAt(FileOf(a) + k * (df \div n), RankOf(a) + k * (dr \div n)) :
                 k \in 1..(n - 1)}

\* a, b and c lie on one line with b strictly between a and c
Aligned(a, b, c) == b \in Between(a, c)

\* board.is_pinned(colour, sq): an enemy slider looks at the king of
\* `colour` along a line on which sq is the only occupied square between
IsPinned(bd, colour, sq) ==
    \E k \in PiecesOf(bd, "K", colour), sn \in Squares :
        /\ bd[sn] # Empty
        /\ bd[sn][1] # colour
        /\ Aligned(k, sq, sn)
        /\ bd[sn][2] \in (IF FileOf(k) = FileOf(sn) \/ RankOf(k) = RankOf(sn)
                           THEN {"R", "Q"} ELSE {"B", "Q"})
        /\ \A b \in Between(k, sn) : bd[b] # Empty => b = sq

\* the walk of lines 96-112 from square sq in direction d with the types
\* `seen` so far: TRUE when it appends "skewer"
RECURSIVE SkewerWalk(_, _, _, _, _)
SkewerWalk(bd, opp, sq, d, seen) ==
    LET nx == sq + d
    IN  IF ~(0 <= nx /\ nx < 64) THEN FALSE
        ELSE IF Abs((nx % 8) - (sq % 8)) > 1 /\ d \in {1, -1, 9, -7, -9, 7}
        THEN FALSE
        ELSE IF bd[nx] # Empty /\ bd[nx][1] = opp
        THEN IF Len(seen) = 1
             THEN seen[1] \in HIGH_VALUE /\ bd[nx][2] \in HIGH_VALUE
             ELSE SkewerWalk(bd, opp, nx, d, Append(seen, bd[nx][2]))
        ELSE IF bd[nx] # Empty THEN FALSE
        ELSE SkewerWalk(bd, opp, nx, d, seen)

\* what detect_themes does when parse_san raises ValueError, were the
\* exception not caught (used as a mutant)
OnParseFailureRaise(themes) == [raised |-> TRUE, themes |-> <<>>]

\* lines 16-17: the ValueError of parse_san is caught, themes is returned
OnParseFailure(themes) == [raised |-> FALSE, themes |-> themes]

\* a FEN text: one chess.Board rejects, or the text of a position
MalformedFen == [ok |-> FALSE, pos |-> None]
FenOf(pos) == [ok |-> TRUE, pos |-> pos]

\* the test of line 61 without the look at the tags (used as a mutant)
IsDiscoveredCheckUntagged(post, themes) == IsCheck(post)

\* line 61: board.is_check() and "check" not in themes, after the push
IsDiscoveredCheck(post, themes) == IsCheck(post) /\ ~InSeq("check", themes)

\* detect_themes: [raised, themes]; chess.Board(fen) raises ValueError on a
\* malformed FEN, outside the try of lines 14-17
detect_themes(fen, move_san) ==
    IF ~fen.ok THEN [raised |-> TRUE, themes |-> <<>>]
    ELSE
    LET board == fen.pos
        mover == board.turn
        parsed == parse_san(board, move_san)
    IN  IF parsed.raised THEN OnParseFailure(<<>>)
        ELSE
        LET move == parsed.move[1]
            piece == board.bd[move.from]
            t1 == IF IsCapture(board, move) THEN <<"capture">> ELSE <<>>
            t2 == t1 \o (IF IsCheck(board) THEN <<"check">> ELSE <<>>)
            t3 == t2 \o (IF piece # Empty /\ piece[2] = "P"
                         THEN <<"pawn_push">>
                              \o (IF IsEnPassant(board, move)
                                  THEN <<"en_passant">> ELSE <<>>)
                              \o (IF RankOf(move.to) \in {0, 7}
                                  THEN <<"promotion">> ELSE <<>>)
                         ELSE <<>>)
            t4 == t3 \o (IF IsCastling(board, move)
                         THEN <<"castling">> ELSE <<>>)
            pre_attacks == SliderAttackPairs(board.bd, mover)
            post == PushMove(board, move)
            opp == post.turn
            t5 == t4 \o (IF \E sq \in ForkKnights(post.bd, opp) :
                               ForkCount(post.bd, sq, opp) >= 2
                         THEN <<"knight_fork">> ELSE <<>>)
            t6 == t5 \o (IF IsDiscoveredCheck(post, t5)
                         THEN <<"discovered_check">> ELSE <<>>)
            post_attacks == SliderAttackPairs(post.bd, mover)
            t7 == t6 \o (IF post_attacks \ pre_attacks # {}
                         THEN <<"discovered_attack">> ELSE <<>>)
            t8 == t7 \o (IF \E sq \in Squares :
                               /\ post.bd[sq] # Empty
                               /\ post.bd[sq][1] = opp
                               /\ post.bd[sq][2] \in {"P", "N", "B", "R", "Q"}
                               /\ IsPinned(post.bd, opp, sq)
                         THEN <<"pin">> ELSE <<>>)
            t9 == t8 \o (IF \E attacker \in Squares, i \in 1..Len(DIRECTIONS) :
                               /\ post.bd[attacker] # Empty
                               /\ post.bd[attacker][1] = mover
                               /\ post.bd[attacker][2] \in SLIDERS
                               /\ SkewerWalk(post.bd, opp, attacker,
                                             DIRECTIONS[i], <<>>)
                         THEN <<"skewer">> ELSE <<>>)
        IN  [raised |-> FALSE, themes |-> t9]

\* ------------------------------------------------------------------------
\* SpecThemes: detect_themes applied to a family of positions and SAN texts
\* ------------------------------------------------------------------------
\* no square: the piece is not on the board
NoSquare == 64

\* The positions: the white king on g1 and a white knight on b5, d5 or f3;
\* optionally a white rook on a1 and a white queen on e3; the black king on
\* e8 or g8; optionally a black rook on a8, a black queen on e6, d8 or h6
\* and a black knight on c2; either side to move.
ThemePositions ==
    {[turn |-> t, ep |-> None,
      bd |-> [sq \in Squares |->
                IF sq = 6 THEN <<"w", "K">>
                ELSE IF sq = wn THEN <<"w", "N">>
                ELSE IF sq = wr THEN <<"w", "R">>
                ELSE IF sq = wq THEN <<"w", "Q">>
                ELSE IF sq = bk THEN <<"b", "K">>
                ELSE IF sq = br THEN <<"b", "R">>
                ELSE IF sq = bq THEN <<"b", "Q">>
                ELSE IF sq = bn THEN <<"b", "N">>
                ELSE Empty]] :
        t \in {"w", "b"}, wn \in {33, 35, 21}, wr \in {NoSquare, 0},
        wq \in {NoSquare, 20}, bk \in {60, 62}, br \in {NoSquare, 56},
        bq \in {NoSquare, 44, 59, 47}, bn \in {NoSquare, 10}}

ThemeFens == {FenOf(pos) : pos \in ThemePositions} \cup {MalformedFen}

\* the SAN texts: knight moves to c7, d4, a1 and e3, king moves to h1 and
\* f8, the queen move to e3, and a text that is no SAN
ThemeSans ==
    {[piece |-> "N", to |-> t] : t \in {50, 27, 0, 20}}
        \cup {[piece |-> "K", to |-> t] : t \in {7, 61}}
        \cup {[piece |-> "Q", to |-> 20]}
        \cup {[piece |-> "?", to |-> 0]}

ThemesInit ==
    /\ \E fen \in ThemeFens, move_san \in ThemeSans :
          call = [pc |-> "call", f |-> "detect_themes", fen |-> fen,
                  move_san |-> move_san,
                  out |-> [raised |-> FALSE, themes |-> <<>>]]
    /\ wl = IdleWl
    /\ scan = IdleScan
    /\ IdleSys

ThemesCall ==
    /\ call.pc = "call"
    /\ call.f = "detect_themes"
    /\ call' = [call EXCEPT !.pc = "done",
                            !.out = detect_themes(call.fen, call.move_san)]
    /\ UNCHANGED <<wl, scan, sysvars>>

ThemesNext == ThemesCall

SpecThemes == ThemesInit /\ [][ThemesNext]_vars

\* ------------------------------------------------------------------------
\* fen_feature_extraction.py: extract_features, one step per statement
\* ------------------------------------------------------------------------
\* chess.Board accepting any text (used as a mutant)
BoardRejectsNothing(fen) == FALSE

\* line 21: chess.Board(req.fen) raises ValueError on a malformed FEN
BoardRejects(fen) == ~fen.ok

\* lines 24-42: the feature functions, in the order of their calls
FeatureFunctions ==
    <<"get_material_balance", "get_center_control", "get_king_safety",
      "get_open_files", "get_semi_open_files", "get_doubled_pawns",
      "get_pawn_structure", "get_attacked_pieces", "get_piece_activity",
      "get_mobility", "get_space_advantage", "get_loose_and_hanging_pieces",
      "get_diagonals", "get_bishop_pair", "get_weak_squares",
      "get_passed_pawns", "get_outposts", "get_rook_placement">>

PieceValue(type) ==
    CASE type = "P" -> 1
      [] type = "N" -> 3
      [] type = "B" -> 3
      [] type = "R" -> 5
      [] type = "Q" -> 9
      [] OTHER -> 0

RECURSIVE BalanceFrom(_, _)
BalanceFrom(bd, sq) ==
    IF sq > 63 THEN 0
    ELSE (IF bd[sq] = Empty THEN 0
          ELSE IF bd[sq][1] = "w" THEN PieceValue(bd[sq][2])
          ELSE 0 - PieceValue(bd[sq][2]))
         + BalanceFrom(bd, sq + 1)

get_material_balance(bd) ==
    LET balance == BalanceFrom(bd, 0)
    IN  [balance |-> balance,
         advantage |-> IF balance > 0 THEN "white"
                       ELSE IF balance < 0 THEN "black" ELSE "equal"]

\* d4, e4, d5, e5
CenterSquares == {27, 28, 35, 36}

get_center_control(bd) ==
    [white |-> Cardinality({sq \in CenterSquares : AttackedBy(bd, "w", sq)}),
     black |-> Cardinality({sq \in CenterSquares : AttackedBy(bd, "b", sq)})]

get_space_advantage(bd) ==
    LET white_count == Cardinality({sq \in Squares :
                           bd[sq] # Empty /\ bd[sq][1] = "w" /\ RankOf(sq) >= 4})
        black_count == Cardinality({sq \in Squares :
                           bd[sq] # Empty /\ bd[sq][1] = "b" /\ RankOf(sq) <= 3})
    IN  [white_space |-> white_count, black_space |-> black_count,
         advantage |-> IF white_count > black_count THEN "white"
                       ELSE IF black_count > white_count THEN "black"
                       ELSE "equal"]

get_bishop_pair(bd) ==
    [white |-> Cardinality(PiecesOf(bd, "B", "w")) >= 2,
     black |-> Cardinality(PiecesOf(bd, "B", "b")) >= 2]

\* lines 45-78: the grouped report; of the feature values the model keeps
\* material, center_control, space_advantage and has_bishop_pair
FeatureReport(bd) ==
    [material |-> get_material_balance(bd),
     center_control |-> get_center_control(bd),
     space_advantage |-> get_space_advantage(bd),
     has_bishop_pair |-> get_bishop_pair(bd)]

FeaturesInit ==
    /\ \E fen \in ThemeFens :
          call = [pc |-> "board", f |-> "extract_features", fen |-> fen,
                  ran |-> <<>>, err |-> "", report |-> None]
    /\ wl = IdleWl
    /\ scan = IdleScan
    /\ IdleSys

\* line 21
FeaturesBoard ==
    /\ call.pc = "board"
    /\ call' = IF BoardRejects(call.fen)
               THEN [call EXCEPT !.pc = "raised", !.err = "ValueError"]
               ELSE [call EXCEPT !.pc = "features"]
    /\ UNCHANGED <<wl, scan, sysvars>>

\* lines 24-42, one feature function a step
FeaturesStep ==
    /\ call.pc = "features"
    /\ Len(call.ran) < Len(FeatureFunctions)
    /\ call' = [call EXCEPT
                   !.ran = Append(@, FeatureFunctions[Len(call.ran) + 1])]
    /\ UNCHANGED <<wl, scan, sysvars>>

\* lines 45-80
FeaturesReturn ==
    /\ call.pc = "features"
    /\ Len(call.ran) = Len(FeatureFunctions)
    /\ call' = [call EXCEPT !.pc = "done",
                            !.report = Some(FeatureReport(call.fen.pos.bd))]
    /\ UNCHANGED <<wl, scan, sysvars>>

FeaturesNext == FeaturesBoard \/ FeaturesStep \/ FeaturesReturn

SpecFeatures == FeaturesInit /\ [][FeaturesNext]_vars

\* ------------------------------------------------------------------------
\* fen_feature_extraction.py: files, pawn structure and outposts.  A list
\* the code fills while it walks files or squares upwards is a sequence in
\* that order; a textual fact such as "backward pawn on b4" or "Knight on
\* d5" is the record of its parts.
\* ------------------------------------------------------------------------
\* the members of a set of numbers, smallest first
RECURSIVE Ascending(_)
Ascending(S) ==
    IF S = {} THEN <<>>
    ELSE LET m == CHOOSE x \in S : \A y \in S : x <= y
         IN  <<m>> \o Ascending(S \ {m})

\* chr(file + ord('a'))
FileLetter(f) == <<"a", "b", "c", "d", "e", "f", "g", "h">>[f + 1]

FilesNamed(S) == [i \in 1..Cardinality(S) |-> FileLetter(Ascending(S)[i])]

\* some pawn of `colour` stands on file f
HasPawn(bd, colour, f) ==
    \E r \in 0..7 : bd[SquareAt(f, r)] = <<colour, "P">>

\* a file counted open as soon as it holds no white pawn (used as a mutant)
IsOpenFileWhiteOnly(bd, f) == ~HasPawn(bd, "w", f)

\* line 183: no square of the file holds a pawn
IsOpenFile(bd, f) == ~HasPawn(bd, "w", f) /\ ~HasPawn(bd, "b", f)

get_open_files(bd) == FilesNamed({f \in 0..7 : IsOpenFile(bd, f)})

get_semi_open_files(bd) ==
    [white |-> FilesNamed({f \in 0..7 :
                             ~HasPawn(bd, "w", f) /\ HasPawn(bd, "b", f)}),
     black |-> FilesNamed({f \in 0..7 :
                             ~HasPawn(bd, "b", f) /\ HasPawn(bd, "w", f)})]

\* board.attackers(colour, sq)
Attackers(bd, colour, sq) ==
    {s \in Squares : /\ bd[s] # Empty
                     /\ bd[s][1] = colour
                     /\ sq \in Attacks(bd, s)}

\* lines 307-319 of get_pawn_structure: its own file lists, by file index
PsOpenFiles(bd) == {f \in 0..7 : ~HasPawn(bd, "w", f) /\ ~HasPawn(bd, "b", f)}
PsSemiOpen(bd, colour) ==
    {f \in 0..7 : ~HasPawn(bd, colour, f) /\ HasPawn(bd, Other(colour), f)}

\* lines 325-372: what the loop body appends for the pawn on pawn_sq
PawnFact(bd, colour, pawn_sq) ==
    LET file == FileOf(pawn_sq)
        rank == RankOf(pawn_sq)
        pawns == PiecesOf(bd, "P", colour)
        adj_files == {file - 1, file + 1}
        is_isolated ==
            ~\E af \in adj_files :
                /\ 0 <= af /\ af <= 7
                /\ \E p \in pawns : FileOf(p) = af
        forward == IF colour = "w" THEN 1 ELSE -1
        front_rank == rank + forward
        front_sq == SquareAt(file, front_rank)
        attackers == Cardinality(Attackers(bd, Other(colour), front_sq))
        defenders == Cardinality(Attackers(bd, colour, front_sq))
        can_defend ==
            \E af \in adj_files :
                /\ 0 <= af /\ af <= 7
                /\ \E r \in {rank, front_rank} :
                      bd[SquareAt(af, r)] = <<colour, "P">>
    IN  IF is_isolated THEN <<[kind |-> "isolated", sq |-> pawn_sq]>>
        ELSE IF file \notin PsOpenFiles(bd) /\ file \notin PsSemiOpen(bd, colour)
        THEN <<>>
        ELSE IF ~(0 <= front_rank /\ front_rank <= 7) THEN <<>>
        ELSE IF bd[front_sq] # Empty THEN <<>>
        ELSE IF ~can_defend /\ attackers > defenders
        THEN <<[kind |-> "backward", sq |-> pawn_sq]>>
        ELSE <<>>

RECURSIVE PawnFactsOf(_, _, _)
PawnFactsOf(bd, colour, sqs) ==
    IF sqs = <<>> THEN <<>>
    ELSE PawnFact(bd, colour, Head(sqs)) \o PawnFactsOf(bd, colour, Tail(sqs))

get_pawn_structure(bd) ==
    [white |-> PawnFactsOf(bd, "w", Ascending(PiecesOf(bd, "P", "w"))),
     black |-> PawnFactsOf(bd, "b", Ascending(PiecesOf(bd, "P", "b")))]

\* an enemy pawn on an adjacent file, on a rank from which its pushes lead
\* to an attack of sq
is_dislodgeable(bd, sq, enemy) ==
    \E df \in {-1, 1} :
        LET f == FileOf(sq) + df
            ranks == IF enemy = "w" THEN 0..(RankOf(sq) - 1)
                     ELSE (RankOf(sq) + 1)..7
        IN  /\ 0 <= f /\ f < 8
            /\ \E r \in ranks : bd[SquareAt(f, r)] = <<enemy, "P">>

\* lines 643-665: the three tests of a knight or bishop of `colour` on sq
IsOutpost(bd, colour, sq) ==
    /\ 3 <= RankOf(sq) /\ RankOf(sq) <= 6
    /\ \E a \in Attackers(bd, colour, sq) : bd[a] = <<colour, "P">>
    /\ ~\E a \in Attackers(bd, Other(colour), sq) : bd[a][2] = "P"
    /\ ~is_dislodgeable(bd, sq, Other(colour))

PieceName(type) == IF type = "N" THEN "Knight" ELSE "Bishop"

OutpostsOfType(bd, colour, type) ==
    LET S == {sq \in PiecesOf(bd, type, colour) : IsOutpost(bd, colour, sq)}
    IN  [i \in 1..Cardinality(S) |->
            [name |-> PieceName(type), square |-> Ascending(S)[i]]]

get_outposts(bd) ==
    [white |-> OutpostsOfType(bd, "w", "N") \o OutpostsOfType(bd, "w", "B"),
     black |-> OutpostsOfType(bd, "b", "N") \o OutpostsOfType(bd, "b", "B")]

\* ------------------------------------------------------------------------
\* SpecStructure: the file lists, the pawn structure and the outposts of a
\* family of positions, and the outposts of each position's mirror image
\* ------------------------------------------------------------------------
BackRank == <<"R", "N", "B", "Q", "K", "B", "N", "R">>

\* the starting position without the two a-pawns
StartWithoutAPawns ==
    [sq \in Squares |->
        CASE RankOf(sq) = 0 -> <<"w", BackRank[FileOf(sq) + 1]>>
          [] RankOf(sq) = 7 -> <<"b", BackRank[FileOf(sq) + 1]>>
          [] RankOf(sq) = 1 /\ FileOf(sq) # 0 -> <<"w", "P">>
          [] RankOf(sq) = 6 /\ FileOf(sq) # 0 -> <<"b", "P">>
          [] OTHER -> Empty]

\* The other boards: the kings on g1 and g8; white pawns on a2, on b2 or
\* b4 and on c3 or c4; black pawns on a7, on c6 or c7 and on e4 or e5; a
\* white knight on d5 or d6 and a black knight on d3 or d4; each of them
\* present or not.
StructureBoards ==
    {[sq \in Squares |->
        IF sq = 6 THEN <<"w", "K">>
        ELSE IF sq = 62 THEN <<"b", "K">>
        ELSE IF sq \in {wa, wb, wc} THEN <<"w", "P">>
        ELSE IF sq \in {ba, bc, be} THEN <<"b", "P">>
        ELSE IF sq = wn THEN <<"w", "N">>
        ELSE IF sq = bn THEN <<"b", "N">>
        ELSE Empty] :
        wa \in {NoSquare, 8}, wb \in {NoSquare, 9, 25},
        wc \in {NoSquare, 18, 26}, ba \in {NoSquare, 48},
        bc \in {NoSquare, 42, 50}, be \in {NoSquare, 28, 36},
        wn \in {NoSquare, 35, 43}, bn \in {NoSquare, 19, 27}}
        \cup {StartWithoutAPawns}

\* the colour-flipped vertical mirror of a board
MirrorSquare(sq) == SquareAt(FileOf(sq), 7 - RankOf(sq))
MirrorBoard(bd) ==
    [sq \in Squares |->
        IF bd[MirrorSquare(sq)] = Empty THEN Empty
        ELSE <<Other(bd[MirrorSquare(sq)][1]), bd[MirrorSquare(sq)][2]>>]

StructureInit ==
    /\ \E bd \in StructureBoards :
          call = [pc |-> "files", f |-> "structure", bd |-> bd,
                  open_files |-> <<>>,
                  semi_open_files |-> [white |-> <<>>, black |-> <<>>],
                  pawn_structure |-> [white |-> <<>>, black |-> <<>>],
                  outposts |-> [white |-> <<>>, black |-> <<>>],
                  mirror_outposts |-> [white |-> <<>>, black |-> <<>>]]
    /\ wl = IdleWl
    /\ scan = IdleScan
    /\ IdleSys

\* get_open_files and get_semi_open_files of the position
StructureFiles ==
    /\ call.pc = "files"
    /\ call' = [call EXCEPT !.pc = "pawns",
                            !.open_files = get_open_files(call.bd),
                            !.semi_open_files = get_semi_open_files(call.bd)]
    /\ UNCHANGED <<wl, scan, sysvars>>

\* get_pawn_structure of the position
StructurePawns ==
    /\ call.pc = "pawns"
    /\ call' = [call EXCEPT !.pc = "outposts",
                            !.pawn_structure = get_pawn_structure(call.bd)]
    /\ UNCHANGED <<wl, scan, sysvars>>

\* get_outposts of the position
StructureOutposts ==
    /\ call.pc = "outposts"
    /\ call' = [call EXCEPT !.pc = "mirror",
                            !.outposts = get_outposts(call.bd)]
    /\ UNCHANGED <<wl, scan, sysvars>>

\* get_outposts of the mirror image of the position
StructureMirror ==
    /\ call.pc = "mirror"
    /\ call' = [call EXCEPT !.pc = "done",
                   !.mirror_outposts = get_outposts(MirrorBoard(call.bd))]
    /\ UNCHANGED <<wl, scan, sysvars>>

StructureNext ==
    StructureFiles \/ StructurePawns \/ StructureOutposts \/ StructureMirror

SpecStructure == StructureInit /\ [][StructureNext]_vars

\* ------------------------------------------------------------------------
\* app/services/drills_service.py: DrillService over the DrillPosition and
\* DrillHistory tables.  In SpecDrills the variable store is the two tables:
\* store.drills maps a drill id to its row, store.history is the bag of
\* the rows of the DrillHistory table (nothing reads their ids).
\* ------------------------------------------------------------------------
\* the number of latest history entries that decide mastery
MasteryWindow == 5

\* the default limit of list_drills and of mastered_drills
ListLimit == 100
MasteredLimit == 20

\* the most rows of the DrillHistory table in the model
MaxHistory == 6

DrillIds == {1, 2}
UnknownDrillId == 3

\* the timestamps of the model; a payload without timestamp gets the
\* present, which is the latest of them
Timestamps == {1, 2}
DrillNow == 2

\* payload.result.lower()
ResultLower(r) ==
    CASE r = "Pass" -> "pass"
      [] r = "FAIL" -> "fail"
      [] OTHER -> r

\* create_drill_history: [raised, err, store]
create_drill_history(db, drill_id, payload) ==
    LET result_lower == ResultLower(payload.result)
    IN  IF result_lower \notin {"pass", "fail"}
        THEN [raised |-> TRUE, err |-> "InvalidResult", store |-> db]
        ELSE IF drill_id \notin DOMAIN db.drills
        THEN [raised |-> TRUE, err |-> "DrillNotFound", store |-> db]
        ELSE LET ts == IF payload.timestamp = None THEN DrillNow
                       ELSE payload.timestamp[1]
                 new_hist == [drill_position_id |-> drill_id,
                              result |-> result_lower, timestamp |-> ts]
             IN  [raised |-> FALSE, err |-> "",
                  store |-> [drills |-> [db.drills EXCEPT
                                 ![drill_id].last_drilled_at = Some(ts)],
                             history |-> db.history (+) SetToBag({new_hist})]]

\* dp.history: the rows of the DrillHistory table that belong to the drill
HistoryOf(db, d) ==
    [h \in {x \in BagToSet(db.history) : x.drill_position_id = d} |->
        db.history[h]]

\* sorted(dp.history, key=timestamp, reverse=True)[:5].  The relationship
\* is loaded without ORDER BY and the sort is stable, so of the entries
\* that share a timestamp any may come first: the results are the sets of
\* min(5, n) entries none of which is older than an entry left out.
RecentChoices(db, d) ==
    LET history == HistoryOf(db, d)
        n == Min(MasteryWindow, BagCardinality(history))
    IN  {S \in SubBag(history) :
            /\ BagCardinality(S) = n
            /\ \A i \in BagToSet(S) : \A j \in BagToSet(history (-) S) :
                  i.timestamp >= j.timestamp}

\* all(h.result == "pass" for h in recent), without the length test (used
\* as a mutant)
IsMasteredAnyLength(recent) ==
    \A h \in BagToSet(recent) : h.result = "pass"

\* len(recent) == 5 and all(h.result == "pass" for h in recent)
IsMastered(recent) ==
    /\ BagCardinality(recent) = MasteryWindow
    /\ \A h \in BagToSet(recent) : h.result = "pass"

\* the drills of the user in the order of list_drills: last_drilled_at
\* ascending with the undrilled first, then the later game first (the game
\* of drill 2 is the later one)
ListBefore(db, a, b) ==
    LET la == db.drills[a].last_drilled_at
        lb == db.drills[b].last_drilled_at
    IN  IF la = lb THEN a > b
        ELSE IF la = None THEN TRUE
        ELSE IF lb = None THEN FALSE
        ELSE la[1] < lb[1]

\* the drills of the user in the order of mastered_drills: last_drilled_at
\* descending
MasteredBefore(db, a, b) ==
    LET la == db.drills[a].last_drilled_at[1]
        lb == db.drills[b].last_drilled_at[1]
    IN  IF la = lb THEN a > b ELSE la > lb

\* the members of S in the order of list_drills (ascending) or of
\* mastered_drills
RECURSIVE OrderedBy(_, _, _)
OrderedBy(db, S, ascending) ==
    IF S = {} THEN <<>>
    ELSE LET m == CHOOSE x \in S : \A y \in S \ {x} :
                      IF ascending THEN ListBefore(db, x, y)
                      ELSE MasteredBefore(db, x, y)
         IN  <<m>> \o OrderedBy(db, S \ {m}, ascending)

\* the for loop of lines 152-225 over one batch of rows
RECURSIVE ListRows(_, _, _, _, _, _)
ListRows(db, rows, results, include_mastered, recent, limit) ==
    IF rows = <<>> \/ Len(results) = limit THEN results
    ELSE LET dp == Head(rows)
             mastered == IsMastered(recent[dp])
         IN  IF ~include_mastered /\ mastered
             THEN ListRows(db, Tail(rows), results, include_mastered, recent, limit)
             ELSE ListRows(db, Tail(rows), Append(results, [id |-> dp, mastered |-> mastered]), include_mastered, recent, limit)

\* the while loop of lines 109-229: batches of limit * 4 rows
RECURSIVE ListLoop(_, _, _, _, _, _, _)
ListLoop(db, ordered, offset, results, include_mastered, recent, limit) ==
    IF ~(Len(results) < limit) THEN results
    ELSE LET batch_size == limit * 4
             rows == SubSeq(ordered, offset + 1, Min(offset + batch_size, Len(ordered)))
         IN  IF rows = <<>> THEN results
             ELSE ListLoop(db, ordered, offset + batch_size, ListRows(db, rows, results, include_mastered, recent, limit), include_mastered, recent, limit)

\* list_drills(username, limit, include); recent[d] is history_sorted[:5]
\* of drill d
list_drills(db, include_archived, include_mastered, recent, limit) ==
    LET rows == {d \in DOMAIN db.drills :
                    include_archived \/ ~db.drills[d].archived}
        results == ListLoop(db, OrderedBy(db, rows, TRUE), 0, <<>>, include_mastered, recent, limit)
    IN  SubSeq(results, 1, Min(limit, Len(results)))

\* the for loop of lines 346-406
RECURSIVE MasteredRows(_, _, _, _, _)
MasteredRows(db, rows, results, recent, limit) ==
    IF rows = <<>> THEN results
    ELSE LET dp == Head(rows)
             mastered == IsMastered(recent[dp])
         IN  IF ~mastered THEN MasteredRows(db, Tail(rows), results, recent, limit)
             ELSE IF Len(results) + 1 = limit
             THEN Append(results, [id |-> dp, mastered |-> mastered])
             ELSE MasteredRows(db, Tail(rows), Append(results, [id |-> dp, mastered |-> mastered]), recent, limit)

\* mastered_drills(username, limit, include_archived)
mastered_drills(db, include_archived, recent, limit) ==
    LET rows == {d \in DOMAIN db.drills :
                    /\ db.drills[d].last_drilled_at # None
                    /\ include_archived \/ ~db.drills[d].archived}
    IN  MasteredRows(db, OrderedBy(db, rows, FALSE), <<>>, recent, limit)

\* ------------------------------------------------------------------------
\* SpecDrills: any sequence of create_drill_history calls on the drills and
\* on an unknown drill, with list_drills and mastered_drills called in
\* between
\* ------------------------------------------------------------------------
HistoryPayloads ==
    {[result |-> r, timestamp |-> t] :
        r \in {"Pass", "fail", "skip"},
        t \in {None} \cup {Some(x) : x \in Timestamps}}

\* the choices of history_sorted[:5] for every drill
RecentPicks(db) ==
    LET choices == [d \in DOMAIN db.drills |-> RecentChoices(db, d)]
    IN  {pick \in [DOMAIN db.drills ->
                     UNION {choices[d] : d \in DOMAIN db.drills}] :
            \A d \in DOMAIN db.drills : pick[d] \in choices[d]}

NoCall ==
    [f |-> "", drill_id |-> 0, include_mastered |-> FALSE, err |-> "",
     out |-> <<>>]

DrillsInit ==
    /\ store = [drills |-> [d \in DrillIds |->
                    [archived |-> FALSE, last_drilled_at |-> None]],
                history |-> EmptyBag]
    /\ call = NoCall
    /\ wl = IdleWl
    /\ scan = IdleScan
    /\ games = {}
    /\ dq = <<>>
    /\ wk = <<>>
    /\ hist = <<>>

CreateDrillHistory ==
    /\ BagCardinality(store.history) < MaxHistory
    /\ \E drill_id \in DrillIds \cup {UnknownDrillId}, payload \in HistoryPayloads :
          LET r == create_drill_history(store, drill_id, payload)
          IN  /\ store' = r.store
              /\ call' = [NoCall EXCEPT !.f = "create_drill_history",
                                        !.drill_id = drill_id,
                                        !.err = r.err]
    /\ UNCHANGED <<wl, scan, games, dq, wk, hist>>

ListDrills ==
    /\ \E include_mastered \in BOOLEAN, recent \in RecentPicks(store) :
          call' = [NoCall EXCEPT
                     !.f = "list_drills",
                     !.include_mastered = include_mastered,
                     !.out = list_drills(store, FALSE, include_mastered, recent, ListLimit)]
    /\ UNCHANGED <<wl, scan, games, dq, store, wk, hist>>

MasteredDrills ==
    /\ \E recent \in RecentPicks(store) :
          call' = [NoCall EXCEPT
                     !.f = "mastered_drills",
                     !.out = mastered_drills(store, FALSE, recent, MasteredLimit)]
    /\ UNCHANGED <<wl, scan, games, dq, store, wk, hist>>

DrillsNext == CreateDrillHistory \/ ListDrills \/ MasteredDrills

SpecDrills == DrillsInit /\ [][DrillsNext]_vars

\* ------------------------------------------------------------------------
\* Claims about the queue runner (checked under Spec)
\* ------------------------------------------------------------------------
\* the committed DrillPosition rows of a queue entry's (game, hero)
StoreRowsOf(q) ==
    {r \in StoredRows : /\ r.game_id = QueueRow(q).game_id
                        /\ r.username = QueueRow(q).hero_username}

\* C1: after any sequence of process_queue_entry runs, re-runs of the same
\* entry included, the drill store holds at most one DrillPosition row per
\* (game_id, username, ply).
C1_OneRowPerKey ==
    /\ \A r \in StoredRows : CopiesIn(r, store) = 1
    /\ \A r1, r2 \in StoredRows : Key(r1) = Key(r2) => r1 = r2

\* C1 witness: a later run has inserted and committed a batch holding a key
\* that was already stored with other values, and the stored row is still
\* the only one of its key.
C1_Witness ==
    \E w \in Workers :
        /\ wk[w].pc = "written"
        /\ \E i \in 1..Len(wk[w].rows) :
              /\ Key(wk[w].rows[i]) \in StoredKeys
              /\ wk[w].rows[i] \notin StoredRows

\* C2: in every reachable state, drills_processed = true for a work item
\* implies that a run wrote the flag and that every drill mined by a run that
\* wrote it has a committed row (or that run mined none).
C2_ProcessedOnlyAfterDrillsWritten ==
    \A q \in QueueIds :
        dq[q].drills_processed =>
            /\ hist[q].markers # {}
            /\ hist[q].marked_keys \subseteq StoredKeys

\* C2 witness: one entry is processed with its mined drills stored, the
\* other is processed after a run that mined no drill.
C2_Witness ==
    /\ dq["q1"].drills_processed
    /\ hist["q1"].marked_keys # {}
    /\ dq["q2"].drills_processed
    /\ hist["q2"].marked_keys = {}

\* C3: when two workers have both run process_queue_entry to its end on the
\* same work item, and every run on it met the same evaluator scores, no run
\* failed with a conflict, and the stored rows and the processed flag are
\* those of a single run: each mined row once, flag set.
C3_DoubleProcessingIsNoOp ==
    /\ \A w \in Workers : wk[w].err # "IntegrityError"
    /\ \A q \in QueueIds :
          (Cardinality(hist[q].markers) >= 2 /\ ~hist[q].diverged) =>
              /\ dq[q].drills_processed
              /\ \A r \in StoreRowsOf(q) : CopiesIn(r, store) = 1
              /\ StoreRowsOf(q) =
                    {hist[q].first[1][i] : i \in 1..Len(hist[q].first[1])}

\* C3 witness: both workers have completed a run on q1 with the same scores,
\* and the run mined two drills.
C3_Witness ==
    /\ hist["q1"].markers = Workers
    /\ ~hist["q1"].diverged
    /\ Len(hist["q1"].first[1]) = 2

\* C4 as stated: the write that sets drills_processed and drilled_at happens
\* at most once per work item, whatever the number of workers.
C4_AsStated ==
    \A q \in QueueIds : Cardinality(hist[q].markers) <= 1

\* some fetch_next_batch call can return the entry
Fetchable(q) == \E ids \in fetch_next_batch(COUNT) : q \in ids

\* The part of C6 that holds: as long as no run has reached its final commit on a work item,
\* whatever runs crashed or aborted on it, its flag is false and a fetch can
\* return it; and once a retry has completed an item on which a run was
\* aborted, its drills are stored once each.
C6_AbortLeavesUnprocessedAndRetryIsClean ==
    \A q \in QueueIds :
        /\ hist[q].markers = {} => (~dq[q].drills_processed /\ Fetchable(q))
        /\ (hist[q].aborts # {} /\ dq[q].drills_processed) =>
              /\ \A r \in StoreRowsOf(q) : CopiesIn(r, store) = 1
              /\ \A r1, r2 \in StoreRowsOf(q) : Key(r1) = Key(r2) => r1 = r2
              /\ hist[q].marked_keys \subseteq StoredKeys

\* C6 as stated: a run that fetched a work item after an earlier run on it
\* had crashed or aborted completes the item whenever the evaluator answers
\* its calls: it does not abort on an exception of the miner.
C6_AsStated ==
    \A w \in Workers :
        (wk[w].pc = "dead" /\ wk[w].retry) => wk[w].err # "ValueError"

\* the case of that part: a run on q1 was killed after its rows were committed and
\* before the flag was written, and a retry has completed the entry.
C6_Witness ==
    /\ "written" \in hist["q1"].aborts
    /\ dq["q1"].drills_processed
    /\ StoreRowsOf("q1") # {}

\* ------------------------------------------------------------------------
\* Claims about shallow_drills_for_hero (checked under SpecMine)
\* ------------------------------------------------------------------------
ScanEnded == scan.pc \in {"returned", "raised"}

\* the plies of the scanned mainline
ScanPlies == IF scan.pc = "idle" THEN {} ELSE 0..(scan.game.len - 1)

\* both evaluations of ply p were answered
Evaluated(p) == scan.e[p].ok /\ scan.e[p + 1].ok

\* the hero-signed loss of ply p as the specification defines it
SpecDelta(p) ==
    HeroSign(scan.hero_side) * (get_cp(scan.e[p]) - get_cp(scan.e[p + 1]))

\* ply p is a hero ply whose swing reaches the threshold
Qualifies(p) ==
    /\ TurnAt(scan.game, p) = scan.hero_side
    /\ Evaluated(p)
    /\ SpecDelta(p) >= SWING_THRESHOLD

Emitted(p) == \E i \in 1..Len(scan.drills) : scan.drills[i].ply = p

\* some evaluator call of the scan raised
EvaluatorFailed ==
    \E i \in 1..Len(scan.calls) : ~scan.e[scan.calls[i]].ok

\* every emitted drill carries the swing, the evaluation before the move and
\* the position before the move of its ply
DrillFieldsRight ==
    \A i \in 1..Len(scan.drills) :
        LET d == scan.drills[i]
        IN  /\ d.ply \in ScanPlies
            /\ Evaluated(d.ply)
            /\ d.swing = SpecDelta(d.ply)
            /\ d.initial_eval = get_cp(scan.e[d.ply])
            /\ d.fen = d.ply
            /\ d.move_san = MainlineSan[d.ply + 1]

\* C5 as stated: an evaluator failure on one hero ply does not fail the
\* scan, and every other hero ply whose swing reaches the threshold is still
\* emitted.
C5_AsStated ==
    /\ scan.pc = "raised" => ~EvaluatorFailed
    /\ (ScanEnded /\ EvaluatorFailed) =>
           \A p \in ScanPlies : Qualifies(p) => Emitted(p)

\* C7 as stated, on the scans in which every evaluator call was answered:
\* when the scan has ended, a drill was emitted for a ply if and only if the
\* mover is the hero and the hero-signed swing reaches SWING_THRESHOLD, and
\* each drill carries eval_swing = delta, initial_eval = cp_before and the
\* position before the move.
C7_AsStated ==
    (ScanEnded /\ ~EvaluatorFailed) =>
        /\ \A p \in ScanPlies : Qualifies(p) <=> Emitted(p)
        /\ DrillFieldsRight

\* The part of C7 that holds, its statement on the scans that return: C7 fails
\* only on scans that raise (an evaluator call, or extract_time_used on a
\* time control that is not "base" or "base+increment").
ReturnedScanEmitsExactlyTheSwings ==
    scan.pc = "returned" =>
        /\ \A p \in ScanPlies : Qualifies(p) <=> Emitted(p)
        /\ DrillFieldsRight

\* a returned scan of a black hero with -300 -> -50 and of a white hero with
\* +300 -> +50, each emitting the drill with swing 250
ReturnedScanReached ==
    /\ scan.pc = "returned"
    /\ \E i \in 1..Len(scan.drills) :
          /\ scan.drills[i].swing = 250
          /\ scan.drills[i].initial_eval \in {300, -300}

\* ------------------------------------------------------------------------
\* Claims about unified_winning_logic (checked under SpecWin)
\* ------------------------------------------------------------------------
WinDone == wl.pc = "done"

\* hero-signed score of the line ranked i in the call's response
LineScore(i) == SignedCp(get_cp(wl.analysis[i]), wl.hero_side)

\* the tolerance test as the specification words it, against the line
\* ranked first
LineWithin(i) == LineScore(1) - LineScore(i) <= WINNING_MOVE_TOLERANCE

\* C8: for every evaluator response the result satisfies
\* has_one_winning_move == (len(winning_moves) == 1).
C8_OnlyMoveIffOneWinningMove ==
    WinDone => (wl.out.only_move <=> (Len(wl.out.moves) = 1))

\* C8 witness: several lines were returned and exactly one is within
\* tolerance.
C8_Witness ==
    /\ WinDone
    /\ Len(wl.analysis) >= 2
    /\ wl.out.only_move
    /\ Len(wl.out.moves) = 1

\* C9: whenever the evaluator returned at least one line, winning_moves is
\* not empty.
C9_WinningMovesNonEmpty ==
    (WinDone /\ Len(wl.analysis) >= 1) => Len(wl.out.moves) >= 1

\* C9 witness: a black hero whose best line is bad for Black in absolute
\* terms, and a second line outside the tolerance.
C9_Witness ==
    /\ WinDone
    /\ wl.hero_side = "b"
    /\ Len(wl.analysis) >= 2
    /\ get_cp(wl.analysis[1]) > 0
    /\ Len(wl.out.moves) = 1

\* the prefix part of C10: winning_lines are the lines of the longest prefix,
\* in rank order, whose score is within tolerance of the first line's
C10_PrefixPart ==
    LET k == Len(wl.out.lines)
    IN  /\ k <= Len(wl.analysis)
        /\ Len(wl.out.moves) = k
        /\ \A i \in 1..k : LineWithin(i) /\ wl.out.lines[i] = wl.analysis[i].pv
        /\ k < Len(wl.analysis) => ~LineWithin(k + 1)

MaxLineScore ==
    CHOOSE m \in {LineScore(i) : i \in 1..Len(wl.analysis)} :
        \A i \in 1..Len(wl.analysis) : LineScore(i) <= m

\* the response ranks its lines best first for the hero
BestFirstForHero ==
    \A i \in 1..(Len(wl.analysis) - 1) : LineScore(i) >= LineScore(i + 1)

PhaseDone == call.pc = "done" /\ call.f = "classify_phase"

\* every material input of the call is known
PhaseAllKnown ==
    None \notin {call.has_white_queen, call.has_black_queen,
                 call.white_rook_count, call.black_rook_count,
                 call.white_minor_count, call.black_minor_count}

\* at least one queen is on the board (inputs known)
PhaseQueenOn == call.has_white_queen[1] \/ call.has_black_queen[1]

\* the case of C12: threshold 10, inputs known, a queen on the board
PhaseBoundaryCase ==
    /\ PhaseDone
    /\ call.opening_move_threshold = 10
    /\ PhaseAllKnown
    /\ PhaseQueenOn

\* C12 as stated: with opening_threshold = 10 and a queen on the board,
\* ply 19 is classified as opening and ply 20 is not.
C12_AsStated ==
    PhaseBoundaryCase =>
        /\ call.ply = 19 => call.out = "opening"
        /\ call.ply = 20 => call.out # "opening"

\* C12 amended: with opening_threshold = 10 and a queen on the board, ply 18
\* (move 9) is classified as opening, and ply 19 and ply 20 (move 10) are
\* not.
C12_BoundaryAtPly18 ==
    PhaseBoundaryCase =>
        /\ call.ply = 18 => call.out = "opening"
        /\ call.ply \in {19, 20} => call.out # "opening"

\* C12 witness: ply 19 with both queens and full material is classified as
\* middle.
C12_Witness ==
    /\ PhaseBoundaryCase
    /\ call.ply = 19
    /\ call.has_white_queen = Some(TRUE)
    /\ call.has_black_queen = Some(TRUE)
    /\ call.out = "middle"

\* move = ceil(ply / 2) as the reference words it: the least integer that
\* is at least ply / 2
RefMove == CHOOSE n \in 0..call.ply : 2 * n >= call.ply /\ 2 * (n - 1) < call.ply

\* 2 * queen + rooks + minors of one side
RefSide(q, r, m) == (IF q[1] THEN 2 ELSE 0) + r[1] + m[1]

\* m = max over the two sides
RefMaterial ==
    LET w == RefSide(call.has_white_queen, call.white_rook_count,
                     call.white_minor_count)
        b == RefSide(call.has_black_queen, call.black_rook_count,
                     call.black_minor_count)
    IN  IF w >= b THEN w ELSE b

\* the reference classification of C13
RefPhase ==
    IF ~PhaseAllKnown
    THEN IF RefMove < call.opening_move_threshold THEN "opening" ELSE "middle"
    ELSE IF RefMove < call.opening_move_threshold /\ PhaseQueenOn
    THEN "opening"
    ELSE IF RefMaterial >= 5 THEN "middle"
    ELSE IF RefMaterial \in {3, 4} THEN "late"
    ELSE "endgame"

\* C13: classify_phase returns a label for every input, and it is the label
\* of the reference: the fallback opening/middle when a material input is
\* unknown, opening iff move < threshold with a queen on the board, and
\* otherwise middle, late or endgame by the material of the richer side.
C13_EqualsReference ==
    PhaseDone =>
        /\ call.out \in {"opening", "middle", "late", "endgame"}
        /\ call.out = RefPhase
        /\ ~PhaseAllKnown => call.out \in {"opening", "middle"}

\* C13 witness: all inputs known, no queen, before the threshold, the sides
\* worth 3 and 1 points: late.
C13_Witness ==
    /\ PhaseDone
    /\ PhaseAllKnown
    /\ ~PhaseQueenOn
    /\ RefMove < call.opening_move_threshold
    /\ call.white_rook_count = Some(2)
    /\ call.white_minor_count = Some(1)
    /\ call.black_rook_count = Some(1)
    /\ call.black_minor_count = Some(0)
    /\ call.out = "late"

\* ------------------------------------------------------------------------
\* Claims about extract_time_used (checked under SpecTime)
\* ------------------------------------------------------------------------
TimeDone == call.pc = "done" /\ call.f = "extract_time_used"

\* the clock reading of the comment of the target move, None when the move
\* has none or the mainline is shorter than ply + 1 moves
TargetReading ==
    IF call.game.parsed /\ call.ply < call.game.len
    THEN call.game.clk[call.ply + 1]
    ELSE None

\* the plies before the target on which its mover moved and left a reading
EarlierReadings ==
    {k \in 0..(call.ply - 1) :
        /\ (call.ply - k) % 2 = 0
        /\ k < call.game.len
        /\ call.game.clk[k + 1] # None}

\* the base time and the increment the time-control text gives, if any
RefBase ==
    IF call.time_control # <<>> THEN call.time_control[1] ELSE None

RefIncrement ==
    IF Len(call.time_control) = 2 /\ call.time_control[2] # None
    THEN call.time_control[2][1]
    ELSE 0

\* prev: the mover's most recent earlier reading, or the base time
RefPrev ==
    IF EarlierReadings # {}
    THEN call.game.clk[(CHOOSE k \in EarlierReadings :
                            \A j \in EarlierReadings : j <= k) + 1]
    ELSE RefBase

\* the time control reads as "base" or "base+increment", or is absent
TimeControlWellFormed ==
    \A i \in 1..Len(call.time_control) : call.time_control[i] # None

\* C14 as stated: extract_time_used never raises, and returns unknown when
\* the target move has no clock comment or the mainline has fewer than
\* ply + 1 moves.
C14_AsStated ==
    TimeDone =>
        /\ ~call.out.raised
        /\ TargetReading = None => call.out.val = None

\* C15 as stated: when the target move has a reading cur and the mover has a
\* previous known remaining time prev, the result is
\* max(0, prev + increment - cur), and it is never negative.
C15_AsStated ==
    TimeDone =>
        /\ (TargetReading # None /\ RefPrev # None) =>
              /\ ~call.out.raised
              /\ call.out.val =
                    Some(Max(0, RefPrev[1] + RefIncrement - TargetReading[1]))
        /\ call.out.val # None => call.out.val[1] >= 0

\* The part of C14 and C15 that holds, on time controls that are absent or
\* read as "base" or "base+increment": no exception, unknown without a
\* target reading or a previous time, and the clamped difference otherwise.
WellFormedTimeControlIsHandled ==
    (TimeDone /\ TimeControlWellFormed) =>
        /\ ~call.out.raised
        /\ (TargetReading = None \/ RefPrev = None) => call.out.val = None
        /\ (TargetReading # None /\ RefPrev # None) =>
              call.out.val =
                  Some(Max(0, RefPrev[1] + RefIncrement - TargetReading[1]))

\* the case of that part: an earlier reading of the mover is used, and the
\* difference is clamped to 0
ClampedTimeReached ==
    /\ TimeDone
    /\ call.time_control = TcBlitz
    /\ TargetReading # None
    /\ EarlierReadings # {}
    /\ RefPrev[1] + RefIncrement - TargetReading[1] < 0
    /\ call.out.val = Some(0)

\* ------------------------------------------------------------------------
\* Claims about detect_themes (checked under SpecThemes)
\* ------------------------------------------------------------------------
ThemesDone == call.pc = "done" /\ call.f = "detect_themes"

\* the SAN text of the call names exactly one legal move of the position
SanIsLegalMove ==
    /\ call.fen.ok
    /\ call.move_san.piece # "?"
    /\ Cardinality(LegalMovesTo(call.fen.pos, call.move_san.piece,
                                call.move_san.to)) = 1

MovedKnightForks ==
    /\ SanIsLegalMove
    /\ call.move_san.piece = "N"
    /\ LET pos == call.fen.pos
           m == CHOOSE x \in LegalMovesTo(pos, "N", call.move_san.to) : TRUE
           after == PushMove(pos, m)
       IN  Cardinality({t \in StepAttacks(m.to, KnightSteps) :
                           /\ after.bd[t] # Empty
                           /\ after.bd[t][1] = Other(pos.turn)
                           /\ after.bd[t][2] \in {"Q", "R", "K"}}) >= 2

\* C17 as stated: when the played move is a knight move after which the
\* moved knight attacks at least two of the opponent's queen, rooks and
\* king, the result includes knight_fork.
C17_AsStated ==
    (ThemesDone /\ MovedKnightForks) => InSeq("knight_fork", call.out.themes)

\* ------------------------------------------------------------------------
\* Claims about extract_features (checked under SpecFeatures)
\* ------------------------------------------------------------------------
\* C18: extract_features on a malformed FEN fails with ValueError before
\* any feature function runs, and returns no feature report, partial or
\* whole; no feature function has run when the board is rejected.
C18_MalformedFenFailsBeforeFeatures ==
    (call.f = "extract_features" /\ ~call.fen.ok) =>
        /\ call.pc \in {"board", "raised"}
        /\ call.ran = <<>>
        /\ call.report = None
        /\ call.pc = "raised" => call.err = "ValueError"

\* C18 witness: the call on a malformed FEN has ended, by raising
C18_Witness ==
    /\ call.f = "extract_features"
    /\ ~call.fen.ok
    /\ call.pc = "raised"
    /\ call.err = "ValueError"
    /\ call.ran = <<>>
    /\ call.report = None

\* ------------------------------------------------------------------------
\* Claims about the start of the worker (checked under Spec)
\* ------------------------------------------------------------------------
\* C19: when the evaluator process cannot be started the worker aborts at
\* startup. The failure happens only in the first step of a run, before any
\* work item is fetched, and leaves the queue, the drills and the mining
\* history untouched; the run is dead from then on, and the only thing that
\* follows is a start of the whole process, never a new attempt made from
\* inside the loop for a position or a work item.
C19_StartFailureAbortsAtStartup ==
    [][\A w \in Workers :
          /\ (wk'[w].err = "popen" /\ wk[w].err # "popen") =>
                /\ wk[w].pc = "boot"
                /\ wk[w].qid = ""
                /\ wk'[w].pc = "dead"
                /\ wk'[w].qid = "" /\ wk'[w].rows = <<>>
                /\ wk'[w].pending = <<>>
                /\ UNCHANGED <<dq, store, hist>>
          /\ wk[w].err = "popen" =>
                /\ wk[w].pc = "dead"
                /\ \/ wk'[w] = wk[w]
                   \/ /\ wk'[w].pc = "boot"
                      /\ wk'[w].restarts = wk[w].restarts + 1
          /\ (wk'[w].pc = "boot" /\ wk[w].pc # "boot") => wk[w].pc = "dead"
      ]_vars

\* C19 witness: a run is dead of the start failure, with no work item in
\* hand, while an unprocessed queue row it never touched remains
C19_Witness ==
    \E w \in Workers :
        /\ wk[w].pc = "dead"
        /\ wk[w].err = "popen"
        /\ wk[w].qid = ""
        /\ \E q \in QueueIds : /\ ~dq[q].drills_processed
                                /\ hist[q].first = None
                                /\ hist[q].aborts = {}

\* ------------------------------------------------------------------------
\* Claims about the order of the evaluator calls (checked under SpecMine)
\* ------------------------------------------------------------------------
\* the calls a whole scan owes from ply p on: for each hero ply the position
\* before the move, then the position after it, and nothing for the others
RECURSIVE OwedCallsFrom(_)
OwedCallsFrom(p) ==
    IF scan.pc = "idle" \/ p >= scan.game.len THEN <<>>
    ELSE (IF TurnAt(scan.game, p) = scan.hero_side THEN <<p, p + 1>>
          ELSE <<>>) \o OwedCallsFrom(p + 1)

IsPrefixOf(a, b) == Len(a) <= Len(b) /\ a = SubSeq(b, 1, Len(a))

DrillPliesIncrease ==
    \A i \in 1..Len(scan.drills) : \A j \in 1..Len(scan.drills) :
        i < j => scan.drills[i].ply < scan.drills[j].ply

\* C20 as stated: when the scan of a game has ended, the evaluator calls it
\* made are, in this order, the position before and the position after each
\* hero ply of the mainline, two calls a hero ply and none for an opponent
\* ply, and the ply indexes of the emitted drills are strictly increasing.
C20_AsStated ==
    ScanEnded =>
        /\ scan.calls = OwedCallsFrom(0)
        /\ DrillPliesIncrease

\* What holds of every scan, ended or not: the calls made so far are a
\* prefix of the owed ones, the drills are in ply order, and a scan that
\* returns has made all of them.
ScanCallsFollowMainlineOrder ==
    scan.pc # "idle" =>
        /\ IsPrefixOf(scan.calls, OwedCallsFrom(0))
        /\ DrillPliesIncrease
        /\ scan.pc = "returned" => scan.calls = OwedCallsFrom(0)

\* a returned scan with two hero plies, four calls and two drills
TwoHeroPliesScanned ==
    /\ scan.pc = "returned"
    /\ Len(scan.calls) = 4
    /\ Len(scan.drills) = 2

\* ------------------------------------------------------------------------
\* Claims about a conflicting batch insert (checked under Spec)
\* ------------------------------------------------------------------------
RowsIn(rows) == {rows[i] : i \in 1..Len(rows)}

\* C21: a batch insert that hits stored (game_id, username, ply) keys is a
\* success. The insert raises nothing and takes exactly the rows of the
\* batch whose key is not stored; its commit keeps every stored row as it
\* was and adds those rows, so that every key of the batch is stored; and
\* the run then marks its work item processed.
C21_ConflictIsSuccess ==
    [][\A w \in Workers :
          /\ (wk[w].pc = "mined" /\ wk'[w].pc # "mined"
                 /\ wk'[w].err # "killed") =>
                /\ wk'[w].pc \in {"inserted", "written"}
                /\ wk'[w].err = ""
                /\ store' = store
                /\ RowsIn(wk'[w].pending) =
                      {r \in RowsIn(wk[w].rows) : Key(r) \notin StoredKeys}
          /\ (wk[w].pc = "inserted" /\ wk'[w].pc = "written") =>
                /\ \A r \in StoredRows :
                      CopiesIn(r, store') = CopiesIn(r, store)
                /\ BagToSet(store') \ StoredRows = RowsIn(wk[w].pending)
                /\ KeysOf(wk[w].rows) \subseteq {Key(r) : r \in BagToSet(store')}
          /\ (wk[w].pc = "written" /\ wk'[w].pc = "loop") =>
                /\ dq'[wk[w].qid].drills_processed
                /\ store' = store
      ]_vars

\* C21 witness: a run has committed a batch of two rows of which the first
\* met a stored row of its key with other field values, which is kept as
\* it was, and the second was inserted; its flag write is all that is left
C21_Witness ==
    \E w \in Workers :
        /\ wk[w].pc = "written"
        /\ Len(wk[w].rows) = 2
        /\ Key(wk[w].rows[1]) \in StoredKeys
        /\ wk[w].rows[1] \notin StoredRows
        /\ wk[w].rows[2] \in StoredRows
        /\ hist[wk[w].qid].first # None
        /\ Len(hist[wk[w].qid].first[1]) = 1

\* ------------------------------------------------------------------------
\* Claims about the pawn structure, the outposts and the files (checked
\* under SpecStructure)
\* ------------------------------------------------------------------------
StructurePawnsDone == call.pc \in {"outposts", "mirror", "done"}
StructureDone == call.pc = "done"
StructureFilesDone == call.pc \in {"pawns", "outposts", "mirror", "done"}

InSeqOf(x, seq) == \E i \in 1..Len(seq) : seq[i] = x

ReportedBackward(colour, sq) ==
    InSeqOf([kind |-> "backward", sq |-> sq],
            IF colour = "w" THEN call.pawn_structure.white
            ELSE call.pawn_structure.black)

\* the stop square of the pawn of `colour` on sq
StopSquare(colour, sq) ==
    SquareAt(FileOf(sq), RankOf(sq) + (IF colour = "w" THEN 1 ELSE -1))

\* a pawn of `colour` stands on an adjacent file of sq, on the rank of sq or
\* further back, from where it defends the stop square or can advance to
\* the square that does
FriendlyPawnCanDefend(colour, sq) ==
    \E p \in PiecesOf(call.bd, "P", colour) :
        /\ FileOf(p) \in {FileOf(sq) - 1, FileOf(sq) + 1}
        /\ IF colour = "w" THEN RankOf(p) <= RankOf(sq)
           ELSE RankOf(p) >= RankOf(sq)

\* what the specification asks of a backward pawn, the file taken as open
\* to the enemy: no enemy pawn stands on it
BackwardBySpec(colour, sq) ==
    /\ call.bd[sq] = <<colour, "P">>
    /\ RankOf(sq) \in 1..6
    /\ call.bd[StopSquare(colour, sq)] = Empty
    /\ ~HasPawn(call.bd, Other(colour), FileOf(sq))
    /\ Cardinality(Attackers(call.bd, Other(colour), StopSquare(colour, sq)))
          > Cardinality(Attackers(call.bd, colour, StopSquare(colour, sq)))
    /\ ~FriendlyPawnCanDefend(colour, sq)
    /\ \E p \in PiecesOf(call.bd, "P", colour) :
          FileOf(p) \in {FileOf(sq) - 1, FileOf(sq) + 1}

\* C22 (not settled): no pawn is ever reported backward.  The test of lines
\* 340-341 asks that the pawn's file be open or hold no pawn of the pawn's
\* own colour, and the pawn itself stands on that file.
BackwardNeverReported ==
    \A c \in {"w", "b"}, sq \in Squares : ~ReportedBackward(c, sq)

\* a position with a pawn that meets every condition of the specification
\* has been analysed
BackwardBySpecReached ==
    /\ StructurePawnsDone
    /\ \E c \in {"w", "b"}, sq \in Squares : BackwardBySpec(c, sq)

\* the squares of the pieces an outposts list names
OutpostSquares(list) == {list[i].square : i \in 1..Len(list)}

\* the squares of the black knights and bishops of the position
BlackMinors == PiecesOf(call.bd, "N", "b") \cup PiecesOf(call.bd, "B", "b")

\* C23 as stated: for every position P and its colour-flipped mirror P', a
\* black knight or bishop on s is in outposts.black of P if and only if
\* the white piece on the mirrored square is in outposts.white of P'.
C23_AsStated ==
    StructureDone =>
        \A s \in BlackMinors :
            s \in OutpostSquares(call.outposts.black)
                <=> MirrorSquare(s) \in OutpostSquares(call.mirror_outposts.white)

\* What holds instead: the two reports agree on every black piece that
\* stands on ranks 4 and 5, the ranks that the window of line 643 and its
\* mirror image share.
OutpostsAgreeInsideSharedRanks ==
    StructureDone =>
        \A s \in BlackMinors :
            RankOf(s) \in {3, 4} =>
                (s \in OutpostSquares(call.outposts.black)
                    <=> MirrorSquare(s)
                            \in OutpostSquares(call.mirror_outposts.white))

\* a black knight on rank 4 is reported, and so is its mirror image
SharedRankOutpostReached ==
    /\ StructureDone
    /\ \E s \in BlackMinors :
          /\ s \in OutpostSquares(call.outposts.black)
          /\ MirrorSquare(s) \in OutpostSquares(call.mirror_outposts.white)

\* file f of the analysed position holds a pawn of `colour`
PawnOnFile(colour, f) ==
    \E sq \in Squares : FileOf(sq) = f /\ call.bd[sq] = <<colour, "P">>

\* the lists that name file f
FileClasses(f) ==
    {c \in {"open", "semi_white", "semi_black"} :
        InSeqOf(FileLetter(f),
                CASE c = "open" -> call.open_files
                  [] c = "semi_white" -> call.semi_open_files.white
                  [] c = "semi_black" -> call.semi_open_files.black)}

\* C24: every file is in open_files iff it holds no pawn, in
\* semi_open_files.white iff it holds black pawns and no white pawn, in
\* semi_open_files.black iff it holds white pawns and no black pawn, and in
\* none of the lists iff it holds pawns of both colours, so in at most one
\* list; the starting position without the a-pawns reports file a open.
C24_EachFileInOneClass ==
    StructureFilesDone =>
        /\ \A f \in 0..7 :
              FileClasses(f) =
                  IF ~PawnOnFile("w", f) /\ ~PawnOnFile("b", f) THEN {"open"}
                  ELSE IF ~PawnOnFile("w", f) THEN {"semi_white"}
                  ELSE IF ~PawnOnFile("b", f) THEN {"semi_black"}
                  ELSE {}
        /\ call.bd = StartWithoutAPawns =>
              /\ FileClasses(0) = {"open"}
              /\ call.open_files = <<"a">>

\* C24 witness: the files of a position that has a file of each of the
\* four kinds have been listed
C24_Witness ==
    /\ StructureFilesDone
    /\ \E f \in 0..7 : ~PawnOnFile("w", f) /\ ~PawnOnFile("b", f)
    /\ \E f \in 0..7 : ~PawnOnFile("w", f) /\ PawnOnFile("b", f)
    /\ \E f \in 0..7 : PawnOnFile("w", f) /\ ~PawnOnFile("b", f)
    /\ \E f \in 0..7 : PawnOnFile("w", f) /\ PawnOnFile("b", f)
    /\ call.semi_open_files.white # <<>>
    /\ call.semi_open_files.black # <<>>
    /\ call.open_files # <<>>

\* ------------------------------------------------------------------------
\* Claims about mastery (checked under SpecDrills)
\* ------------------------------------------------------------------------
\* the number of entries of drill d with a timestamp in T
EntriesAt(d, T) ==
    LET history == HistoryOf(store, d)
    IN  BagCardinality([h \in {x \in BagToSet(history) : x.timestamp \in T}
                           |-> history[h]])

\* an entry of time t is among the five latest of drill d: fewer than five
\* are later
AmongLatest(d, t) ==
    EntriesAt(d, {u \in Timestamps : u > t}) < MasteryWindow

\* mastery as the claim defines it
MasteredAsClaimed(d) ==
    /\ BagCardinality(HistoryOf(store, d)) >= MasteryWindow
    /\ \A h \in BagToSet(HistoryOf(store, d)) :
          AmongLatest(d, h.timestamp) => h.result = "pass"

\* entries with one timestamp lie on both sides of the fifth place
TieAtFifthPlace(d) ==
    \E h \in BagToSet(HistoryOf(store, d)) :
        /\ AmongLatest(d, h.timestamp)
        /\ EntriesAt(d, {u \in Timestamps : u >= h.timestamp})
             > MasteryWindow

ReturnedIds == {call.out[i].id : i \in 1..Len(call.out)}

\* C25 as stated: list_drills omits exactly the mastered drills unless
\* 'mastered' is in include, and mastered_drills returns only mastered
\* drills, mastered meaning at least five entries of which the five with
\* the latest timestamps are all 'pass'.
C25_AsStated ==
    /\ call.f = "list_drills" =>
          ReturnedIds = {d \in DrillIds :
                            call.include_mastered \/ ~MasteredAsClaimed(d)}
    /\ call.f = "mastered_drills" =>
          \A d \in ReturnedIds : MasteredAsClaimed(d)

\* C25 amended: the same for every drill whose entries do not tie at the
\* fifth place; a drill not returned by list_drills is a drill of the
\* table that the call took for mastered, and mastered_drills returns only
\* drills with at least five entries.
C25_MasteryWhenNoTie ==
    /\ call.f = "list_drills" =>
          /\ ReturnedIds \subseteq DrillIds
          /\ \A d \in DrillIds :
                ~TieAtFifthPlace(d) =>
                    (d \in ReturnedIds
                        <=> (call.include_mastered \/ ~MasteredAsClaimed(d)))
    /\ call.f = "mastered_drills" =>
          \A d \in ReturnedIds :
              /\ BagCardinality(HistoryOf(store, d)) >= MasteryWindow
              /\ ~TieAtFifthPlace(d) => MasteredAsClaimed(d)

\* C25 witness: drill 1 has six entries without a tie at the fifth place,
\* the oldest a failure, and list_drills has left it out as mastered
C25_Witness ==
    /\ call.f = "list_drills"
    /\ ~call.include_mastered
    /\ BagCardinality(HistoryOf(store, 1)) = 6
    /\ ~TieAtFifthPlace(1)
    /\ \E h \in BagToSet(HistoryOf(store, 1)) : h.result = "fail"
    /\ ReturnedIds = {2}

\* ------------------------------------------------------------------------
\* Claims about termination (checked under SpecOnce)
\* ------------------------------------------------------------------------
\* the worker has left its loop through the break of line 278
OnceExited == wk[OnceWorker].pc = "exited"

\* the evaluator could not be started or one of its calls raised
OnceWorkerDied == wk[OnceWorker].pc = "dead"

\* C26 as stated: run with --once, and with every evaluator call
\* succeeding, the worker eventually exits, for every initial queue content
\* including entries whose Game row cannot be loaded.
C26_AsStated == <>(OnceExited \/ OnceWorkerDied)

\* what does hold: when every Game row can be loaded the worker exits
OnceExitsWhenGamesLoad == (games = GameIds) => <>(OnceExited \/ OnceWorkerDied)

\* an entry whose Game row is missing has been run and is still unprocessed
MissingGameLeftUnprocessed ==
    \E q \in QueueIds :
        /\ QueueRow(q).game_id \notin games
        /\ hist[q].first = None
        /\ ~dq[q].drills_processed
        /\ wk[OnceWorker].pc = "loop"
        /\ wk[OnceWorker].qid = ""
        /\ \A o \in QueueIds \ {q} : dq[o].drills_processed

\* ------------------------------------------------------------------------
\* Claims about the hero's colour (checked under Spec)
\* ------------------------------------------------------------------------
\* the side the worker mined the row for: username is dq.hero_username
MinedSide(row) ==
    HeroSide(row.username, GameRow(row.game_id).white_username)

\* the side the drill service takes for the hero of the row
DisplayedSide(row) ==
    ServiceHeroSide(row.username, GameRow(row.game_id).white_username)

\* C27 as stated: for every stored drill row and its game, the side the
\* worker mined as hero is the side the drill service treats as hero.
C27_AsStated == \A row \in StoredRows : MinedSide(row) = DisplayedSide(row)

\* ------------------------------------------------------------------------
\* Claims about the atomicity of a run's insert (checked under Spec)
\* ------------------------------------------------------------------------
\* the step is the commit by worker w of everything its run mined: after it
\* every key of the run is in the table, and the rows that appeared are
\* rows of the run
CommitsWholeRun(w) ==
    /\ wk[w].pc = "inserted"
    /\ wk'[w].pc = "written"
    /\ KeysOf(wk[w].rows) \subseteq {Key(r) : r \in BagToSet(store')}
    /\ BagToSet(store') \ StoredRows \subseteq RowsIn(wk[w].rows)

\* C28: the visible DrillPosition table changes only by the commit of one
\* run's whole set of rows; a failure or a kill during mining,
\* classification or the insert leaves the table as it was.
C28_RunIsWrittenAtOnce ==
    [][store' # store => \E w \in Workers : CommitsWholeRun(w)]_vars

\* C28 witness: a run that mined two drills has committed both, while a
\* run has failed in mining or classification
C28_Witness ==
    /\ \E w \in Workers :
          /\ wk[w].pc = "written"
          /\ Len(wk[w].rows) = 2
          /\ RowsIn(wk[w].rows) \subseteq StoredRows
    /\ \E q \in QueueIds : "entry" \in hist[q].aborts

\* ------------------------------------------------------------------------
\* Claims about the ply index of a drill (checked under SpecMine)
\* ------------------------------------------------------------------------
\* the moves before move k of the side that plays move k whose comment has
\* a clock reading
OwnReadingsBefore(game, k) ==
    {j \in 1..(k - 1) : j % 2 = k % 2 /\ game.clk[j] # None}

\* the clock of the side that plays move k before that move: its last
\* reading, or the base time of the time control
ClockBefore(game, time_control, k) ==
    IF OwnReadingsBefore(game, k) # {}
    THEN game.clk[CHOOSE j \in OwnReadingsBefore(game, k) :
                    \A i \in OwnReadingsBefore(game, k) : i <= j]
    ELSE IF time_control = <<>> THEN None
    ELSE time_control[1]

\* the seconds spent on move k according to its own clock comment
SpentOnMove(game, time_control, k) ==
    LET rem == game.clk[k]
        before == ClockBefore(game, time_control, k)
        inc == IF Len(time_control) = 2 THEN time_control[2][1] ELSE 0
    IN  IF rem = None \/ before = None THEN None
        ELSE Some(Max(0, before[1] + inc - rem[1]))

\* C29: for every emitted drill with index p, fen_before is the position
\* after exactly p mainline half-moves, losing_move is the (p+1)-th mainline
\* move, a move of the hero, and time_used is computed from the clock
\* comment of that same move and the hero's clock before it.
C29_MinerAndTimeParserAgree ==
    scan.pc # "idle" =>
        \A i \in 1..Len(scan.drills) :
            LET d == scan.drills[i]
            IN  /\ d.fen = d.ply
                /\ d.move_san = MainlineSan[d.ply + 1]
                /\ TurnAt(scan.game, d.ply) = scan.hero_side
                /\ d.time_used =
                      SpentOnMove(scan.game, scan.time_control, d.ply + 1)

\* C29 witness: a returned scan of a game with uneven clocks has emitted
\* the drill of the third half-move with the time spent on it
C29_Witness ==
    /\ scan.pc = "returned"
    /\ scan.game.clk = Uneven(MaxPly)
    /\ \E i \in 1..Len(scan.drills) :
          /\ scan.drills[i].ply = 2
          /\ scan.drills[i].time_used # None

\* ------------------------------------------------------------------------
\* Claims about the check tags (checked under SpecThemes)
\* ------------------------------------------------------------------------
\* detect_themes has returned the tags of a move it could parse
ThemesOfParsedMove ==
    /\ ThemesDone
    /\ call.fen.ok
    /\ ~call.out.raised
    /\ SanIsLegalMove

\* the king of `colour` stands on a square a piece of the other side attacks
KingAttacked(bd, colour) ==
    \E k \in Squares :
        /\ bd[k] = <<colour, "K">>
        /\ Attackers(bd, Other(colour), k) # {}

\* the move the SAN text names and the board after it
PlayedMove == parse_san(call.fen.pos, call.move_san).move[1]
BoardAfter == PushMove(call.fen.pos, PlayedMove).bd

MoverInCheckBefore == KingAttacked(call.fen.pos.bd, call.fen.pos.turn)
OpponentInCheckAfter == KingAttacked(BoardAfter, Other(call.fen.pos.turn))

\* the moved piece itself attacks the opponent's king after the move
MovedPieceGivesCheck ==
    \E k \in Squares :
        /\ BoardAfter[k] = <<Other(call.fen.pos.turn), "K">>
        /\ PlayedMove.to \in Attackers(BoardAfter, call.fen.pos.turn, k)

\* C30: 'check' is tagged exactly when the mover was in check before the
\* move, 'discovered_check' exactly when the position after the move is
\* check and 'check' was not tagged; the two tags never occur together, and
\* every checking move of a side that was not in check is tagged
\* discovered_check, whether or not the moved piece gives the check.
C30_CheckTags ==
    ThemesOfParsedMove =>
        /\ InSeq("check", call.out.themes) <=> MoverInCheckBefore
        /\ InSeq("discovered_check", call.out.themes)
              <=> (OpponentInCheckAfter /\ ~InSeq("check", call.out.themes))
        /\ ~(InSeq("check", call.out.themes)
               /\ InSeq("discovered_check", call.out.themes))
        /\ (OpponentInCheckAfter /\ ~MoverInCheckBefore)
              => InSeq("discovered_check", call.out.themes)

\* C30 witness: a side that was not in check has moved a piece that itself
\* gives check, and the move is tagged discovered_check
C30_Witness ==
    /\ ThemesOfParsedMove
    /\ ~MoverInCheckBefore
    /\ MovedPieceGivesCheck
    /\ InSeq("discovered_check", call.out.themes)

\* a side in check has answered with a check: only 'check' is tagged
CrossCheckReached ==
    /\ ThemesOfParsedMove
    /\ MoverInCheckBefore
    /\ OpponentInCheckAfter
    /\ InSeq("check", call.out.themes)

====
